---- MODULE Spec2Model ----
(***************************************************************************)
(* Model of the traffic "what-if" simulation of the road-management        *)
(* dashboard: simulateTrafficChanges, fetchJunctionById and their helpers  *)
(* (lib/api, kept as src/unnamed/part_000) over the Junction type of       *)
(* src/junction.ts.                                                        *)
(*                                                                         *)
(* JavaScript numbers are modelled as tagged fixed-point values            *)
(*   [k |-> "num", v |-> n]   the finite number n / Scale                  *)
(*   [k |-> "nan"]            NaN                                          *)
(*   [k |-> "inf", v |-> s]   +Infinity (s = 1) or -Infinity (s = -1)      *)
(*   [k |-> "undef"]          undefined (an absent optional field)         *)
(* Arithmetic on finite values is exact (real arithmetic at a resolution   *)
(* of 1/Scale); every multiplication in the code is by a literal, so it is *)
(* modelled as multiplication by a rational p/q.                           *)
(***************************************************************************)
EXTENDS Integers, Sequences, FiniteSets, TLC

\* ------------------------------------------------------------------------
\* JavaScript numbers
\* ------------------------------------------------------------------------

\* Resolution of the fixed-point numbers: 1/20 holds every value the code
\* derives from integers and halves through *0.9, *0.5, *0.1, *0.8, *1.5.
Scale == 20

Fix(v) == [k |-> "num", v |-> v]

Num(n) == Fix(n * Scale)

\* n + 1/2, as for a lane width of 3.5
Half(n) == Fix(n * Scale + Scale \div 2)

NaN == [k |-> "nan", v |-> 0]

Inf(s) == [k |-> "inf", v |-> s]

Undef == [k |-> "undef", v |-> 0]

Sign(n) == IF n > 0 THEN 1 ELSE IF n < 0 THEN -1 ELSE 0

\* ToNumber: undefined becomes NaN in arithmetic
ToNumber(x) == IF x.k = "undef" THEN NaN ELSE x

IsFinite(x) == x.k = "num"

\* a + b
Add(a, b) ==
  LET x == ToNumber(a)
      y == ToNumber(b)
  IN  IF x.k = "nan" \/ y.k = "nan" THEN NaN
      ELSE IF x.k = "inf" /\ y.k = "inf"
        THEN IF x.v = y.v THEN x ELSE NaN
      ELSE IF x.k = "inf" THEN x
      ELSE IF y.k = "inf" THEN y
      ELSE Fix(x.v + y.v)

\* a - b
Sub(a, b) ==
  LET y == ToNumber(b)
      ny == IF y.k = "num" THEN Fix(0 - y.v)
            ELSE IF y.k = "inf" THEN Inf(0 - y.v)
            ELSE NaN
  IN  Add(a, ny)

\* a * (p/q) for a literal p/q > 0
MulK(a, p, q) ==
  LET x == ToNumber(a)
  IN  IF x.k = "num" THEN Fix((x.v * p) \div q) ELSE x

\* Mutant: the floor is not applied
MathMaxSecond(a, b) == ToNumber(b)

\* Math.max(a, b): NaN when either argument is NaN
MathMax(a, b) ==
  LET x == ToNumber(a)
      y == ToNumber(b)
  IN  IF x.k = "nan" \/ y.k = "nan" THEN NaN
      ELSE IF x.k = "inf" THEN (IF x.v = 1 THEN x ELSE y)
      ELSE IF y.k = "inf" THEN (IF y.v = 1 THEN y ELSE x)
      ELSE IF x.v >= y.v THEN x ELSE y

\* Mutant: the fraction is cut off, as Math.floor does
MathRoundTruncates(a) ==
  LET x == ToNumber(a)
  IN  IF x.k = "num" THEN Fix(Scale * (x.v \div Scale)) ELSE x

\* Math.round(a): the nearest integer, a half rounding towards +Infinity
MathRound(a) ==
  LET x == ToNumber(a)
  IN  IF x.k = "num"
        THEN Fix(Scale * ((x.v + Scale \div 2) \div Scale))
        ELSE x

\* floor(n/d + 1/2) for integers n and d # 0
RoundRatio(n, d) ==
  IF d > 0 THEN (2 * n + d) \div (2 * d)
  ELSE (2 * (0 - n) + (0 - d)) \div (2 * (0 - d))

\* a >= b on numbers (false when either is NaN)
Ge(a, b) ==
  LET x == ToNumber(a)
      y == ToNumber(b)
  IN  /\ x.k # "nan"
      /\ y.k # "nan"
      /\ IF x.k = "inf" THEN x.v = 1 \/ (y.k = "inf" /\ y.v = -1)
         ELSE IF y.k = "inf" THEN y.v = -1
         ELSE x.v >= y.v

\* JavaScript truthiness of a number: NaN, 0 and undefined are falsy
Truthy(a) == a.k = "inf" \/ (a.k = "num" /\ a.v # 0)

\* ------------------------------------------------------------------------
\* Strings, dates and the sine
\* ------------------------------------------------------------------------

\* A string is the sequence of its characters.
Digits == {"0", "1", "2", "3", "4", "5", "6", "7", "8", "9"}

DigitValue(c) ==
  CASE c = "0" -> 0 [] c = "1" -> 1 [] c = "2" -> 2 [] c = "3" -> 3
    [] c = "4" -> 4 [] c = "5" -> 5 [] c = "6" -> 6 [] c = "7" -> 7
    [] c = "8" -> 8 [] c = "9" -> 9

\* s.replace("j", ""): the first "j" of s removed, s itself when it has none
ReplaceJ(s) ==
  IF \E p \in 1..Len(s) : s[p] = "j"
    THEN LET p == CHOOSE q \in 1..Len(s) :
                    s[q] = "j" /\ \A r \in 1..(q - 1) : s[r] # "j"
         IN  SubSeq(s, 1, p - 1) \o SubSeq(s, p + 1, Len(s))
    ELSE s

\* The value of the longest prefix of digits of s, read from the left
RECURSIVE DigitPrefixValue(_, _)
DigitPrefixValue(s, acc) ==
  IF s = << >> \/ Head(s) \notin Digits THEN acc
  ELSE DigitPrefixValue(Tail(s), acc * 10 + DigitValue(Head(s)))

\* Number.parseInt(s): an optional sign, then the longest run of decimal
\* digits; NaN when no digit follows
ParseInt(s) ==
  LET neg == s # << >> /\ Head(s) = "-"
      body == IF s # << >> /\ Head(s) \in {"-", "+"} THEN Tail(s) ELSE s
  IN  IF body = << >> \/ Head(body) \notin Digits THEN NaN
      ELSE IF neg THEN Num(0 - DigitPrefixValue(body, 0))
      ELSE Num(DigitPrefixValue(body, 0))

\* Date.prototype.toISOString of the instant t (milliseconds since the
\* epoch): the fields of "YYYY-MM-DDTHH:mm:ss.sssZ", the calendar date kept
\* as the number of the day
ToISOString(t) ==
  [day |-> t \div 86400000,
   hour |-> (t % 86400000) \div 3600000,
   minute |-> (t % 3600000) \div 60000,
   second |-> (t % 60000) \div 1000,
   ms |-> t % 1000]

\* The instant an ISO string denotes (what new Date(iso).getTime() reads)
ISOToMillis(iso) ==
  iso.day * 86400000 + iso.hour * 3600000 + iso.minute * 60000
    + iso.second * 1000 + iso.ms

\* Math.sin is tabulated at the multiples of pi/12, scaled by SinScale
SinScale == 10000000

SinQuarter == <<0, 2588190, 5000000, 7071068, 8660254, 9659258, 10000000>>

\* SinScale * Math.sin(k * Math.PI / 12)
SinPi12(k) ==
  LET m == k % 24
  IN  IF m <= 6 THEN SinQuarter[m + 1]
      ELSE IF m <= 12 THEN SinQuarter[12 - m + 1]
      ELSE IF m <= 18 THEN 0 - SinQuarter[m - 12 + 1]
      ELSE 0 - SinQuarter[24 - m + 1]

\* The largest e >= 0 with 2^e * d <= n, for n >= d > 0
RECURSIVE Log2Floor(_, _)
Log2Floor(n, d) == IF 2 * d <= n THEN 1 + Log2Floor(n, 2 * d) ELSE 0

RECURSIVE Pow2(_)
Pow2(e) == IF e = 0 THEN 1 ELSE 2 * Pow2(e - 1)

\* ------------------------------------------------------------------------
\* The helpers of simulateTrafficChanges
\* ------------------------------------------------------------------------

\* Mutant: the delay grows by 80 at saturation, not by 60
calculateMockDelaySteep(junction) ==
  LET c == ToNumber(junction.currentTrafficCount)
      cap == ToNumber(junction.capacity)
  IN  IF c.k # "num" \/ cap.k # "num" THEN NaN
      ELSE IF cap.v = 0
        THEN (IF c.v = 0 THEN NaN ELSE Inf(Sign(c.v)))
      ELSE Fix((Scale \div 10) * RoundRatio(200 * cap.v + 800 * c.v, cap.v))

\* Math.round((20 + currentTrafficCount / capacity * 60) * 10) / 10.
\* x / 0 is NaN for x = 0 and an infinity otherwise, and both pass through
\* the sum, the products and Math.round unchanged.  The quotient is taken
\* exactly; on the counts and capacities used here the doubles of the code
\* round to the same tenth.
calculateMockDelay(junction) ==
  LET c == ToNumber(junction.currentTrafficCount)
      cap == ToNumber(junction.capacity)
  IN  IF c.k # "num" \/ cap.k # "num" THEN NaN
      ELSE IF cap.v = 0
        THEN (IF c.v = 0 THEN NaN ELSE Inf(Sign(c.v)))
      ELSE Fix((Scale \div 10) * RoundRatio(200 * cap.v + 600 * c.v, cap.v))

\* Mutant: 90% of the capacity
calculateMockThroughputNinety(junction) ==
  MathRound(MulK(junction.capacity, 9, 10))

\* Math.round(capacity * 0.8)
calculateMockThroughput(junction) ==
  MathRound(MulK(junction.capacity, 8, 10))

\* Number.parseInt(junction.id.replace("j", "")) || 1
junctionIndex(junction) ==
  LET n == ParseInt(ReplaceJ(junction.id))
  IN  IF Truthy(n) THEN n.v \div Scale ELSE 1

\* Mutant: the curve a quarter of a day later, sin((i - 12) pi / 12)
hourFactorsLate == [i \in 0..23 |-> SinPi12(i - 12)]

\* SinScale * Math.sin(((i - 6) * Math.PI) / 12) for the indices of the loop
hourFactors == [i \in 0..23 |-> SinPi12(i - 6)]

\* 1 + hourFactor as the double the code computes: its exact value times
\* (1 + c * 2^-52).  Math.sin returns 1.22e-16 for the argument pi (i = 18)
\* and -0.4999999999999997 for 7 pi / 6 (i = 20); where the sine is 0, 1/2
\* or 1 otherwise, the sum is exact.
SinUlps(i) == IF i = 18 THEN 1 ELSE IF i = 20 THEN 2 ELSE 0

\* Whether the double traffic - impact * 0.5 * (1 + hourFactor) lies just
\* below the half-integer T that exact arithmetic gives, so that Math.round
\* rounds it down.  With a = impact * 0.5 * (the exact 1 + hourFactor) = n/d:
\* the product is a + j ulp(a), j = c * (a / 2^ea) rounded half to even, and
\* the difference falls below T when j ulp(a) exceeds half an ulp of T.
TieFallsBelow(traffic, n, d, c) ==
  LET tn == traffic * d - n
      ea == Log2Floor(n * 1024, d)
      eT == Log2Floor(tn * 1024, d)
      num == 2 * c * n * 1024
      den == d * Pow2(ea)
      up == (num + den) \div (2 * den)
      j == IF (num + den) % (2 * den) = 0 /\ up % 2 = 1 THEN up - 1 ELSE up
  IN  /\ c > 0
      /\ n > 0
      /\ tn >= d
      /\ 2 * j * Pow2(ea) > Pow2(eT)

\* Math.round(traffic - impact * 0.5 * (1 + hourFactor)) for the finite
\* impact v / Scale, the difference taken over K = 2 * Scale * SinScale / 1000
RoundAdjusted(traffic, v, i) ==
  LET q == SinScale + hourFactors[i]
      w == v * (q \div 1000) + (v * (q % 1000)) \div 1000
      r == (v * (q % 1000)) % 1000
      K == 2 * Scale * (SinScale \div 1000)
      M == K * traffic + K \div 2 - w
  IN  IF r > 0 THEN (M - 1) \div K
      ELSE IF M % K = 0
                /\ TieFallsBelow(traffic, v, (2 * Scale * SinScale) \div q,
                                 SinUlps(i))
        THEN M \div K - 1
      ELSE M \div K

\* Mutant: the window ends an hour before now
pointTimeHourEarly(now, i) == now - (24 - i) * 60 * 60 * 1000

\* now.getTime() - (23 - i) * 60 * 60 * 1000
pointTime(now, i) == now - (23 - i) * 60 * 60 * 1000

\* Mutant: the baseline is 80% of the traffic of the point
FlowPointBaselineOfTraffic(type, baseFactor, impact, now, i) ==
  LET swing == (hourFactors[i] * 3 + SinScale \div 200) \div (SinScale \div 100)
      traffic0 == IF baseFactor + swing >= 100 THEN baseFactor + swing ELSE 100
      adjusted == RoundAdjusted(traffic0, impact.v, i)
      traffic == IF type = "after" /\ Truthy(impact)
                   THEN (IF adjusted >= 100 THEN adjusted ELSE 100)
                   ELSE traffic0
  IN  [time |-> ToISOString(pointTime(now, i)),
       traffic |-> traffic,
       before |-> (traffic * 8 + 5) \div 10]

\* Mutant: the floor of 100 is applied before the impact adjustment only
FlowPointFloorFirst(type, baseFactor, impact, now, i) ==
  LET swing == (hourFactors[i] * 3 + SinScale \div 200) \div (SinScale \div 100)
      traffic0 == IF baseFactor + swing >= 100 THEN baseFactor + swing ELSE 100
  IN  [time |-> ToISOString(pointTime(now, i)),
       traffic |-> IF type = "after" /\ Truthy(impact)
                     THEN RoundAdjusted(traffic0, impact.v, i)
                     ELSE traffic0,
       before |-> (baseFactor * 8 + 5) \div 10]

\* One pass of the loop: the point of index i, read at the instant now.
\* baseFactor is junctionIndex * 100 + 300, the same in every pass.
FlowPoint(type, baseFactor, impact, now, i) ==
  LET \* Math.max(100, Math.round(baseFactor + hourFactor * 300))
      swing == (hourFactors[i] * 3 + SinScale \div 200) \div (SinScale \div 100)
      traffic0 == IF baseFactor + swing >= 100 THEN baseFactor + swing ELSE 100
      adjusted == RoundAdjusted(traffic0, impact.v, i)
  IN  [time |-> ToISOString(pointTime(now, i)),
       traffic |-> IF type = "after" /\ Truthy(impact)
                     THEN (IF adjusted >= 100 THEN adjusted ELSE 100)
                     ELSE traffic0,
       before |-> (baseFactor * 8 + 5) \div 10]

\* The 24 points, pushed for i = 0, 1, ..., 23
generateMockTrafficFlowData(type, junction, impact, now) ==
  LET baseFactor == junctionIndex(junction) * 100 + 300
  IN  [p \in 1..24 |-> FlowPoint(type, baseFactor, impact, now, p - 1)]

\* Mutant: the signal timing enters like the other deltas, new minus old
totalImpactSignalForward(junction, changes) ==
  LET laneWidthImpact == MulK(Sub(changes.laneWidth, junction.laneWidth), 20, 1)
      speedLimitImpact == MulK(Sub(changes.speedLimit, junction.speedLimit), 2, 1)
      signalTimingImpact ==
        MulK(Sub(changes.signalTiming, junction.signalTiming), 3, 2)
      lanesImpact == MulK(changes.additionalLanes, 100, 1)
  IN  Add(Add(Add(laneWidthImpact, speedLimitImpact), signalTimingImpact),
          lanesImpact)

\* laneWidthImpact + speedLimitImpact + signalTimingImpact + lanesImpact
totalImpact(junction, changes) ==
  LET laneWidthImpact == MulK(Sub(changes.laneWidth, junction.laneWidth), 20, 1)
      speedLimitImpact == MulK(Sub(changes.speedLimit, junction.speedLimit), 2, 1)
      signalTimingImpact ==
        MulK(Sub(junction.signalTiming, changes.signalTiming), 3, 2)
      lanesImpact == MulK(changes.additionalLanes, 100, 1)
  IN  Add(Add(Add(laneWidthImpact, speedLimitImpact), signalTimingImpact),
          lanesImpact)

\* The "before" object; now is what new Date() reads in its flow series
beforeSnapshot(junction, now) ==
  [laneWidth |-> junction.laneWidth,
   speedLimit |-> junction.speedLimit,
   signalTiming |-> junction.signalTiming,
   lanes |-> junction.lanes,
   averageTraffic |-> junction.currentTrafficCount,
   averageDelay |-> calculateMockDelay(junction),
   throughput |-> calculateMockThroughput(junction),
   trafficFlowData |-> generateMockTrafficFlowData("before", junction, Num(0), now)]

\* Mutant: the traffic count is not scaled by 0.9
afterAverageTrafficUnscaled(junction, impact) ==
  MathMax(Num(100),
          MathRound(Sub(junction.currentTrafficCount, MulK(impact, 1, 2))))

\* Math.max(100, Math.round(junction.currentTrafficCount * 0.9
\*                           - totalImpact * 0.5))
afterAverageTraffic(junction, impact) ==
  MathMax(Num(100),
          MathRound(Sub(MulK(junction.currentTrafficCount, 9, 10),
                        MulK(impact, 1, 2))))

\* Math.max(5, calculateMockDelay(junction) - totalImpact * 0.1)
afterAverageDelay(junction, impact) ==
  MathMax(Num(5), Sub(calculateMockDelay(junction), MulK(impact, 1, 10)))

\* Mutant: the impact is taken off the throughput
afterThroughputLessImpact(junction, impact) ==
  MathMax(Num(200), Sub(calculateMockThroughput(junction), impact))

\* Mutant: the throughput rounded to an integer
afterThroughputRounded(junction, impact) ==
  MathRound(MathMax(Num(200), Add(calculateMockThroughput(junction), impact)))

\* Math.max(200, calculateMockThroughput(junction) + totalImpact)
afterThroughput(junction, impact) ==
  MathMax(Num(200), Add(calculateMockThroughput(junction), impact))

\* Mutant: the lane count is kept at one lane or more
afterSnapshotLanesClamped(junction, changes, now) ==
  LET impact == totalImpact(junction, changes)
  IN  [laneWidth |-> changes.laneWidth,
       speedLimit |-> changes.speedLimit,
       signalTiming |-> changes.signalTiming,
       lanes |-> MathMax(Num(1), Add(junction.lanes, changes.additionalLanes)),
       averageTraffic |-> afterAverageTraffic(junction, impact),
       averageDelay |-> afterAverageDelay(junction, impact),
       throughput |-> afterThroughput(junction, impact),
       trafficFlowData |->
         generateMockTrafficFlowData("after", junction, impact, now)]

\* The "after" object
afterSnapshot(junction, changes, now) ==
  LET impact == totalImpact(junction, changes)
  IN  [laneWidth |-> changes.laneWidth,
       speedLimit |-> changes.speedLimit,
       signalTiming |-> changes.signalTiming,
       lanes |-> Add(junction.lanes, changes.additionalLanes),
       averageTraffic |-> afterAverageTraffic(junction, impact),
       averageDelay |-> afterAverageDelay(junction, impact),
       throughput |-> afterThroughput(junction, impact),
       trafficFlowData |->
         generateMockTrafficFlowData("after", junction, impact, now)]

\* { before, after }, as line 95 returns it: the two flow series read the
\* clock one after the other
SimulationResult(junction, changes, nowBefore, nowAfter) ==
  [before |-> beforeSnapshot(junction, nowBefore),
   after |-> afterSnapshot(junction, changes, nowAfter)]

\* junctionsData.find((j) => j.id === id): the first match, none as << >>
Find(data, id) ==
  IF \E p \in 1..Len(data) : data[p].id = id
    THEN LET p == CHOOSE q \in 1..Len(data) :
                    data[q].id = id /\ \A r \in 1..(q - 1) : data[r].id # id
         IN  <<data[p]>>
    ELSE << >>

\* new Error(`Junction with ID ${id} not found`)
NotFoundError(id) ==
  [name |-> "Error", message |-> <<"Junction with ID ", id, " not found">>]

\* ------------------------------------------------------------------------
\* Inputs
\* ------------------------------------------------------------------------

\* How many invocations of simulateTrafficChanges run concurrently
MaxInvocations == 2

\* The largest lane delta of a change request, either way
MaxAdditionalLanes == 7

\* The most the clock moves between the two flow series of one result, in ms
MaxDrift == 1

\* The instant at which the clock stops ticking, in ms
MaxClock == 2400

Procs == 1..MaxInvocations

Junction(id, laneWidth, speedLimit, signalTiming, lanes, count, capacity) ==
  [id |-> id, laneWidth |-> laneWidth, speedLimit |-> speedLimit,
   signalTiming |-> signalTiming, lanes |-> lanes,
   currentTrafficCount |-> count, capacity |-> capacity]

ChangeRequest(laneWidth, speedLimit, signalTiming, additionalLanes) ==
  [laneWidth |-> laneWidth, speedLimit |-> speedLimit,
   signalTiming |-> signalTiming, additionalLanes |-> additionalLanes]

\* The junction and the changes of the worked example
ScenarioJunction ==
  Junction(<<"j", "1">>, Num(3), Num(30), Num(60), Num(2), Num(400), Num(500))

ScenarioChanges == ChangeRequest(Half(3), Num(30), Num(45), Num(1))

\* Junctions a junctions.json can hold, every field a finite number: the
\* metrics read laneWidth, signalTiming, currentTrafficCount and capacity
MetricJunctions ==
  { Junction(<<"j", "1">>, lw, Num(30), st, Num(2), c, cap) :
      lw \in {Num(3), Half(3)},
      st \in {Num(45), Num(60)},
      c \in {Num(0), Num(150), Num(400), Num(500), Num(650)},
      cap \in {Num(0 - 500), Num(0), Num(333), Num(500), Num(800)} }

\* and the flow series reads the identifier
NamedJunctions ==
  { Junction(id, Num(3), Num(30), Num(60), Num(2), Num(400), Num(500)) :
      id \in {<<"j", "1", "2">>, <<"j", "0">>, <<"a", "7">>, <<"7", "j">>,
              <<"j", "-", "2">>} }

\* The same with optional fields absent, as the Junction type allows
PartialJunctions ==
  { Junction(<<"j", "1">>, lw, sl, st, ln, Num(400), Num(500)) :
      lw \in {Undef, Num(3)}, sl \in {Undef, Num(30)},
      st \in {Undef, Num(60)}, ln \in {Undef, Num(2)} }

\* A small junction, whose throughput round(200 * 0.8) = 160 is under the
\* floor of the after snapshot and whose traffic count is at its floor
SmallJunctions ==
  { Junction(<<"j", "1">>, Num(3), Num(30), Num(45), Num(2), Num(100), Num(200)) }

Junctions ==
  MetricJunctions \cup NamedJunctions \cup PartialJunctions \cup SmallJunctions

\* Change requests: finite numbers, the lane delta up to MaxAdditionalLanes
\* either way
Changes ==
  { ChangeRequest(lw, sl, st, Num(al)) :
      lw \in {Num(3), Half(3)},
      sl \in {Num(30), Num(50)},
      st \in {Num(45), Num(90)},
      al \in {0 - MaxAdditionalLanes, -2, -1, 0, 1, MaxAdditionalLanes} }

\* ------------------------------------------------------------------------
\* State
\* ------------------------------------------------------------------------

VARIABLES
  junctionsData,          \* the imported data/junctions.json, a sequence
  simulationResultsData,  \* the imported data/simulation-results.json, by id
  clock,                  \* the wall clock, in milliseconds
  pc,                     \* where each invocation is: "idle" before the call,
                          \* "delay" in the 1500 ms timer, "fetching" in the
                          \* 800 ms timer of fetchJunctionById, "fetched" once
                          \* that promise is settled, "settled" once its own is
  junctionId,             \* each invocation's argument junctionId
  changes,                \* each invocation's argument changes
  timer,                  \* the instant its pending setTimeout is due
  fetched,                \* the promise of fetchJunctionById it awaits
  nowRead,                \* what new Date() read in its two flow series
  outcome,                \* the promise simulateTrafficChanges returned
  ml,                     \* the call of the ML API client in progress
  generated,              \* generateMockJunctions: how many junctions it has
                          \* pushed, and the one it pushed last
  loading,                \* the state loading of the map component
  shownJunctions,         \* the state junctions of the map component, by id
  searches                \* where each call of handleSearch is, and the way
                          \* it went

\* The variables of the map component and of its generator
uiVars == <<generated, loading, shownJunctions, searches>>

vars == <<junctionsData, simulationResultsData, clock, pc, junctionId, changes,
          timer, fetched, nowRead, outcome, ml, generated, loading,
          shownJunctions, searches>>

\* ------------------------------------------------------------------------
\* Promises
\* ------------------------------------------------------------------------

Pending == [state |-> "pending", value |-> << >>]

Fulfilled(v) == [state |-> "fulfilled", value |-> <<v>>]

Rejected(e) == [state |-> "rejected", value |-> <<e>>]

NoChanges == ChangeRequest(Num(0), Num(0), Num(0), Num(0))

\* No call of predictSafety, getModelStatus or trainModel has been made
NoMLCall ==
  [pc |-> "idle", fn |-> "none", env |-> << >>, arg |-> << >>, fetches |-> 0,
   response |-> << >>, outcome |-> Pending]

\* How many calls of handleSearch are in progress at once
MaxSearches == 2

Searches == 1..MaxSearches

\* handleSearch has not been called.  pc is "idle", "returned" after the
\* return of line 248, "geocoding" while the geocoder holds the callback,
\* "fetching" in the await of line 311, "done" at the end; path is the branch
\* the callback took, threw what threw, simulated whether the component had to
\* generate the junctions itself; set and cleared tell whether this call has
\* run setLoading(true) and setLoading(false).
NoSearch ==
  [pc |-> "idle", query |-> "", path |-> "none", threw |-> "none",
   simulated |-> FALSE, set |-> FALSE, cleared |-> FALSE]

\* generateMockJunctions has pushed nothing
NoneGenerated == [pushed |-> 0, last |-> << >>]

\* The map component as mounted, no generator running
UiIdle ==
  /\ generated = NoneGenerated
  /\ loading = FALSE
  /\ shownJunctions = << >>
  /\ searches = [s \in Searches |-> NoSearch]

\* ------------------------------------------------------------------------
\* The imported data
\* ------------------------------------------------------------------------

\* A junctions.json: the junction of the worked example and one whose
\* capacity is 0
SampleJunctions ==
  << ScenarioJunction,
     Junction(<<"j", "2">>, Num(3), Num(30), Num(60), Num(2), Num(300), Num(0)) >>

\* A simulation-results.json: one result stored for "j3", whatever the
\* changes of the call
SampleSimulationResults ==
  [id \in {<<"j", "3">>} |->
     SimulationResult(
       Junction(id, Num(3), Num(40), Num(50), Num(3), Num(600), Num(900)),
       ChangeRequest(Num(4), Num(40), Num(40), Num(0)), 0, 0)]

\* Names every object inherits from Object.prototype, two of them
ObjectPrototypeKeys ==
  { <<"c", "o", "n", "s", "t", "r", "u", "c", "t", "o", "r">>,
    <<"t", "o", "S", "t", "r", "i", "n", "g">> }

\* The function Object.prototype holds under key
InheritedProperty(key) == [inherited |-> key]

\* Whether data[key] is truthy: an own entry of the imported object (an
\* object), or a property found up the prototype chain (a function)
HasProperty(data, key) == key \in DOMAIN data \/ key \in ObjectPrototypeKeys

\* data[key] for a key that HasProperty
Property(data, key) ==
  IF key \in DOMAIN data THEN data[key] ELSE InheritedProperty(key)

\* The calls made: the stored junction under two change requests, the
\* junction with a pre-computed result, and an identifier nothing holds
CallArgs ==
  { <<ScenarioJunction.id, ScenarioChanges>>,
    <<ScenarioJunction.id, ChangeRequest(Num(3), Num(30), Num(60), Num(0))>>,
    <<(<<"j", "3">>), ScenarioChanges>>,
    <<(<<"j", "9">>), ScenarioChanges>> }

\* The steps the wall clock makes between two steps of the program
TickSteps == {800}

\* ------------------------------------------------------------------------
\* simulateTrafficChanges and fetchJunctionById, step by step
\* ------------------------------------------------------------------------

\* simulateTrafficChanges(junctionId, changes) is called: it runs to its
\* first await, the 1500 ms timer, and hands back a pending promise.
\* Invocations are numbered in the order of their calls.
Call(i, id, ch) ==
  /\ pc[i] = "idle"
  /\ \A k \in 1..(i - 1) : pc[k] # "idle"
  /\ pc' = [pc EXCEPT ![i] = "delay"]
  /\ junctionId' = [junctionId EXCEPT ![i] = id]
  /\ changes' = [changes EXCEPT ![i] = ch]
  /\ timer' = [timer EXCEPT ![i] = clock + 1500]
  /\ UNCHANGED <<junctionsData, simulationResultsData, clock, fetched, nowRead,
                 outcome>>
  /\ UNCHANGED uiVars
  /\ UNCHANGED ml

\* The 1500 ms timer fired and a pre-computed result exists: it is returned
ReturnPrecomputed(i) ==
  /\ pc[i] = "delay"
  /\ clock >= timer[i]
  /\ HasProperty(simulationResultsData, junctionId[i])
  /\ pc' = [pc EXCEPT ![i] = "settled"]
  /\ outcome' = [outcome EXCEPT
                   ![i] = Fulfilled(Property(simulationResultsData,
                                             junctionId[i]))]
  /\ UNCHANGED <<junctionsData, simulationResultsData, clock, junctionId,
                 changes, timer, fetched, nowRead>>
  /\ UNCHANGED uiVars
  /\ UNCHANGED ml

\* The 1500 ms timer fired and no pre-computed result exists:
\* fetchJunctionById is called and runs to its 800 ms timer
StartFetch(i) ==
  /\ pc[i] = "delay"
  /\ clock >= timer[i]
  /\ ~HasProperty(simulationResultsData, junctionId[i])
  /\ pc' = [pc EXCEPT ![i] = "fetching"]
  /\ timer' = [timer EXCEPT ![i] = clock + 800]
  /\ UNCHANGED <<junctionsData, simulationResultsData, clock, junctionId,
                 changes, fetched, nowRead, outcome>>
  /\ UNCHANGED uiVars
  /\ UNCHANGED ml

\* The 800 ms timer fired: fetchJunctionById finds the junction and returns
\* it, or throws
FinishFetch(i) ==
  /\ pc[i] = "fetching"
  /\ clock >= timer[i]
  /\ LET junction == Find(junctionsData, junctionId[i])
     IN  fetched' = [fetched EXCEPT
                       ![i] = IF junction = << >>
                                THEN Rejected(NotFoundError(junctionId[i]))
                                ELSE Fulfilled(junction[1])]
  /\ pc' = [pc EXCEPT ![i] = "fetched"]
  /\ UNCHANGED <<junctionsData, simulationResultsData, clock, junctionId,
                 changes, timer, nowRead, outcome>>
  /\ UNCHANGED uiVars
  /\ UNCHANGED ml

\* Mutant: the changes are kept in one place that every call overwrites
changesOfLatestCall(i) ==
  LET called == {k \in Procs : pc[k] # "idle"}
  IN  changes[CHOOSE k \in called : \A m \in called : m <= k]

\* Mutant: the number of invocations served so far leaks into the lane delta
changesCountingServed(i) ==
  [changes[i] EXCEPT
     !.additionalLanes =
        Add(@, Num(Cardinality({k \in Procs : pc[k] = "settled"})))]

\* The parameter changes of invocation i
changesOf(i) == changes[i]

\* simulateTrafficChanges resumes with the junction (lines 62-95): it builds
\* before and after, each flow series reading the clock for itself, up to
\* MaxDrift ms apart
Compute(i) ==
  /\ pc[i] = "fetched"
  /\ fetched[i].state = "fulfilled"
  /\ \E drift \in 0..MaxDrift :
       /\ clock' = clock + drift
       /\ nowRead' = [nowRead EXCEPT ![i] = <<clock, clock + drift>>]
       /\ outcome' = [outcome EXCEPT
                        ![i] = Fulfilled(SimulationResult(fetched[i].value[1],
                                                          changesOf(i), clock,
                                                          clock + drift))]
  /\ pc' = [pc EXCEPT ![i] = "settled"]
  /\ UNCHANGED <<junctionsData, simulationResultsData, junctionId, changes,
                 timer, fetched>>
  /\ UNCHANGED uiVars
  /\ UNCHANGED ml

\* simulateTrafficChanges resumes with the error of fetchJunctionById, which
\* it does not catch: its own promise rejects with it
Rethrow(i) ==
  /\ pc[i] = "fetched"
  /\ fetched[i].state = "rejected"
  /\ outcome' = [outcome EXCEPT ![i] = Rejected(fetched[i].value[1])]
  /\ pc' = [pc EXCEPT ![i] = "settled"]
  /\ UNCHANGED <<junctionsData, simulationResultsData, clock, junctionId,
                 changes, timer, fetched, nowRead>>
  /\ UNCHANGED uiVars
  /\ UNCHANGED ml

\* Time passes
Tick(d) ==
  /\ clock + d <= MaxClock
  /\ clock' = clock + d
  /\ UNCHANGED <<junctionsData, simulationResultsData, pc, junctionId, changes,
                 timer, fetched, nowRead, outcome>>
  /\ UNCHANGED uiVars
  /\ UNCHANGED ml

\* ------------------------------------------------------------------------
\* Specifications
\* ------------------------------------------------------------------------

\* Nothing called yet, over the sample data
Init ==
  /\ junctionsData = SampleJunctions
  /\ simulationResultsData = SampleSimulationResults
  /\ clock = 0
  /\ pc = [i \in Procs |-> "idle"]
  /\ junctionId = [i \in Procs |-> << >>]
  /\ changes = [i \in Procs |-> NoChanges]
  /\ timer = [i \in Procs |-> 0]
  /\ fetched = [i \in Procs |-> Pending]
  /\ nowRead = [i \in Procs |-> << >>]
  /\ outcome = [i \in Procs |-> Pending]
  /\ ml = NoMLCall
  /\ UiIdle

Next ==
  \/ \E i \in Procs, a \in CallArgs : Call(i, a[1], a[2])
  \/ \E i \in Procs : ReturnPrecomputed(i)
  \/ \E i \in Procs : StartFetch(i)
  \/ \E i \in Procs : FinishFetch(i)
  \/ \E i \in Procs : Compute(i)
  \/ \E i \in Procs : Rethrow(i)
  \/ \E d \in TickSteps : Tick(d)

Spec == Init /\ [][Next]_vars

\* The computation of lines 65-95 on its own: one invocation that has just
\* been handed its junction, for every junction and every change request
InitCompute ==
  /\ \E j \in Junctions, ch \in Changes :
       /\ junctionsData = <<j>>
       /\ junctionId = [i \in Procs |-> IF i = 1 THEN j.id ELSE << >>]
       /\ changes = [i \in Procs |-> IF i = 1 THEN ch ELSE NoChanges]
       /\ fetched = [i \in Procs |-> IF i = 1 THEN Fulfilled(j) ELSE Pending]
  /\ simulationResultsData = SampleSimulationResults
  /\ clock = 86399999
  /\ pc = [i \in Procs |-> IF i = 1 THEN "fetched" ELSE "idle"]
  /\ timer = [i \in Procs |-> 0]
  /\ nowRead = [i \in Procs |-> << >>]
  /\ outcome = [i \in Procs |-> Pending]
  /\ ml = NoMLCall
  /\ UiIdle

NextCompute == \E i \in Procs : Compute(i)

SpecCompute == InitCompute /\ [][NextCompute]_vars

\* The calls of a caller that passes any string for junctionId: a stored
\* junction, the junction with a pre-computed result, an identifier nothing
\* holds, and the names of ObjectPrototypeKeys
LookupArgs ==
  { <<id, ScenarioChanges>> :
      id \in {ScenarioJunction.id, <<"j", "3">>, <<"j", "9">>}
                \cup ObjectPrototypeKeys }

NextLookup ==
  \/ \E i \in Procs, a \in LookupArgs : Call(i, a[1], a[2])
  \/ \E i \in Procs : ReturnPrecomputed(i)
  \/ \E i \in Procs : StartFetch(i)
  \/ \E i \in Procs : FinishFetch(i)
  \/ \E i \in Procs : Compute(i)
  \/ \E i \in Procs : Rethrow(i)
  \/ \E d \in TickSteps : Tick(d)

\* simulateTrafficChanges called with any string for junctionId
SpecLookup == Init /\ [][NextLookup]_vars

\* ------------------------------------------------------------------------
\* A caller that writes into a result it was handed
\* ------------------------------------------------------------------------

\* Invocation i returned at line 59: what its promise holds is the very
\* object the imported simulationResultsData holds under junctionId, not a
\* copy of it.  A result built at lines 65-95 is made of new object and array
\* literals whose fields are numbers and strings.
ReturnedImported(i) ==
  /\ pc[i] = "settled"
  /\ outcome[i].state = "fulfilled"
  /\ nowRead[i] = << >>

\* The results of invocations i and k are one and the same object
SameObject(i, k) ==
  /\ ReturnedImported(i)
  /\ ReturnedImported(k)
  /\ junctionId[i] = junctionId[k]

\* The caller of invocation i assigns result.after.throughput = 0.  The write
\* lands in the object, so everything that refers to that object sees it: the
\* imported data and the results of the other invocations that returned it.
CallerMutates(i) ==
  /\ pc[i] = "settled"
  /\ outcome[i].state = "fulfilled"
  /\ outcome[i].value[1].after.throughput # Num(0)
  /\ LET written == [outcome[i].value[1] EXCEPT !.after.throughput = Num(0)]
     IN  IF ReturnedImported(i)
           THEN /\ simulationResultsData' =
                     [simulationResultsData EXCEPT ![junctionId[i]] = written]
                /\ outcome' = [k \in Procs |->
                                 IF SameObject(i, k) THEN Fulfilled(written)
                                 ELSE outcome[k]]
           ELSE /\ outcome' = [outcome EXCEPT ![i] = Fulfilled(written)]
                /\ UNCHANGED simulationResultsData
  /\ UNCHANGED <<junctionsData, clock, pc, junctionId, changes, timer, fetched,
                 nowRead>>
  /\ UNCHANGED uiVars
  /\ UNCHANGED ml

NextCaller ==
  \/ Next
  \/ \E i \in Procs : CallerMutates(i)

\* The program together with callers that write into what they were handed
SpecCaller == Init /\ [][NextCaller]_vars

\* ------------------------------------------------------------------------
\* The client of the ML backend: predictSafety, getModelStatus, trainModel
\* ------------------------------------------------------------------------

\* s.includes(t) on strings held as sequences of characters
Includes(s, t) ==
  \E p \in 1..(Len(s) - Len(t) + 1) : SubSeq(s, p, p + Len(t) - 1) = t

Localhost == <<"l", "o", "c", "a", "l", "h", "o", "s", "t">>

VercelApp == <<"v", "e", "r", "c", "e", "l", ".", "a", "p", "p">>

\* Where a call runs: process.env.NODE_ENV, and window.location.hostname in a
\* browser (window is << >> on the server, where typeof window is "undefined")
Environments ==
  [NODE_ENV : {"development", "production"},
   window : {<< >>, <<Localhost>>, <<(<<"r", "m", ".">> \o VercelApp)>>,
             <<(<<"r", "m", ".", "i", "o">>)>>}]

\* isDevMode(), lines 34-40
isDevMode(env) ==
  \/ env.NODE_ENV = "development"
  \/ (env.window # << >> /\ env.window[1] = Localhost)
  \/ (env.window # << >> /\ Includes(env.window[1], VercelApp))

IsDigit(c) == c \in Digits

\* Number.parseInt(junction.id.replace(/\D/g, "")) || 1, line 214
junctionNumber(junction) ==
  LET n == ParseInt(SelectSeq(junction.id, IsDigit))
  IN  IF Truthy(n) THEN n.v \div Scale ELSE 1

\* A quotient n / d of two numbers given in hundredths, d > 0
Ratio(n, d) == [n |-> n, d |-> d]

\* Mutant: a high risk starts from the probability 0.2 like the other levels
mockPredictionLowHigh(junction) ==
  LET seed == (junctionNumber(junction) * 13) % 100
      risk_level == IF seed > 70 THEN 2 ELSE IF seed > 40 THEN 1 ELSE 0
      low_prob == IF risk_level = 0 THEN 70 + (seed % 30) ELSE 30 - (seed % 20)
      med_prob == IF risk_level = 1 THEN 60 + (seed % 30) ELSE 25 - (seed % 15)
      high_prob == IF risk_level = 2 THEN 20 + (seed % 40) ELSE 20 - (seed % 15)
      total == low_prob + med_prob + high_prob
  IN  [junction_id |-> junction.id,
       risk_level |-> risk_level,
       risk_probability |-> <<Ratio(low_prob, total), Ratio(med_prob, total),
                              Ratio(high_prob, total)>>]

\* The prediction of one junction, lines 213-247: the risk level from the
\* seed, and the three probabilities, in hundredths before they are
\* normalised by their total
mockPrediction(junction) ==
  LET seed == (junctionNumber(junction) * 13) % 100
      risk_level == IF seed > 70 THEN 2 ELSE IF seed > 40 THEN 1 ELSE 0
      low_prob == IF risk_level = 0 THEN 70 + (seed % 30) ELSE 30 - (seed % 20)
      med_prob == IF risk_level = 1 THEN 60 + (seed % 30) ELSE 25 - (seed % 15)
      high_prob == IF risk_level = 2 THEN 50 + (seed % 40) ELSE 20 - (seed % 15)
      total == low_prob + med_prob + high_prob
  IN  [junction_id |-> junction.id,
       risk_level |-> risk_level,
       risk_probability |-> <<Ratio(low_prob, total), Ratio(med_prob, total),
                              Ratio(high_prob, total)>>]

\* getMockPredictions(junctions), read at the instant now
getMockPredictions(junctions, now) ==
  [predictions |-> [p \in 1..Len(junctions) |-> mockPrediction(junctions[p])],
   model_version |-> "v1.0.3 (mock)",
   timestamp |-> ToISOString(now)]

\* getMockModelStatus(), read at the instant now; the accuracy in hundredths
getMockModelStatus(now) ==
  [model_loaded |-> TRUE, version |-> "v1.0.3",
   last_updated |-> ToISOString(now), accuracy |-> 87]

\* The literal of lines 163, 166 and 197
MockTrainingResponse ==
  [message |-> "Training job started (mock)", job_id |-> "mock-job-123"]

\* The local mock data of the function fn
MockData(fn, arg, now) ==
  CASE fn = "predictSafety" -> getMockPredictions(arg, now)
    [] fn = "getModelStatus" -> getMockModelStatus(now)
    [] fn = "trainModel" -> MockTrainingResponse

MLFunctions == {"predictSafety", "getModelStatus", "trainModel"}

\* The junctions handed to predictSafety
MLJunction(id) == [id |-> id, name |-> "Junction", latitude |-> 51, longitude |-> 0]

\* What a call is given: junctions for predictSafety, nothing for
\* getModelStatus, any data for trainModel, of which JSON.stringify throws on
\* a cyclic one
MLArguments(fn) ==
  CASE fn = "predictSafety" ->
         {<< >>, <<MLJunction(<<"j", "6">>)>>,
          <<MLJunction(<<"j", "4">>), MLJunction(<<"a", "7">>)>>}
    [] fn = "getModelStatus" -> {<< >>}
    [] fn = "trainModel" -> {[cyclic |-> FALSE], [cyclic |-> TRUE]}

\* Whether JSON.stringify of the request body throws
StringifyThrows(fn, arg) == fn = "trainModel" /\ arg.cyclic

\* The path and the default message of each function
Endpoint(fn) ==
  CASE fn = "predictSafety" -> "/predict"
    [] fn = "getModelStatus" -> "/model/status"
    [] fn = "trainModel" -> "/train"

FailureMessage(fn) ==
  CASE fn = "predictSafety" -> "Failed to get safety predictions"
    [] fn = "getModelStatus" -> "Failed to get model status"
    [] fn = "trainModel" -> "Failed to train model"

\* A JSON value a body parses to: null, or an object that may carry a detail
JsonNull == [kind |-> "null", detail |-> << >>, model_version |-> "none"]

JsonObject(detail) ==
  [kind |-> "object", detail |-> detail, model_version |-> "v2.1"]

\* What the backend may send as a body: text that response.json() rejects,
\* or text that parses to null, to an object with a detail, to one without
RemoteBodies ==
  {[parses |-> FALSE, json |-> JsonNull],
   [parses |-> TRUE, json |-> JsonNull],
   [parses |-> TRUE, json |-> JsonObject(<<"Model not loaded">>)],
   [parses |-> TRUE, json |-> JsonObject(<< >>)]}

\* The content-type header: absent, text/html, or a JSON one with a charset
ContentTypes ==
  {<< >>, <<(<<"text/html">>)>>,
   <<(<<"application/json", "; charset=utf-8">>)>>}

\* contentType && contentType.includes("application/json")
IsJsonContentType(contentType) ==
  contentType # << >> /\ \E p \in 1..Len(contentType[1]) :
                           contentType[1][p] = "application/json"

Responses ==
  [ok : {TRUE}, status : {200}, statusText : {"OK"},
   contentType : ContentTypes, body : RemoteBodies]
  \cup
  [ok : {FALSE}, status : {500}, statusText : {"Internal Server Error"},
   contentType : ContentTypes, body : RemoteBodies]

\* fetch either rejects (the network is down) or resolves with a response
FetchResults ==
  {Rejected([name |-> "TypeError", message |-> <<"Failed to fetch">>])}
  \cup {Fulfilled(r) : r \in Responses}

SyntaxError ==
  [name |-> "SyntaxError", message |-> <<"Unexpected token in JSON">>]

\* Mutant: the outer catch falls back to the mock data in every mode
OuterCatchAlwaysMock(fn, env, arg, error, now) ==
  Fulfilled(MockData(fn, arg, now))

\* The outer catch, lines 88-96 (133-141, 190-198)
OuterCatch(fn, env, arg, error, now) ==
  IF ~isDevMode(env) THEN Rejected(error)
  ELSE Fulfilled(MockData(fn, arg, now))

\* Mutant: the inner catch passes the failure on
InnerCatchRethrows(fn, arg, now) == Rejected(SyntaxError)

\* The inner catch, lines 62-65 (113-116, 164-167)
InnerCatch(fn, arg, now) == Fulfilled(MockData(fn, arg, now))

\* Lines 80-81: error = await response.json() has settled; the detail of
\* null cannot be read
ThrownForBody(fn, body) ==
  IF ~body.parses THEN SyntaxError
  ELSE IF body.json.kind = "null"
    THEN [name |-> "TypeError",
          message |-> <<"Cannot read properties of null">>]
  ELSE [name |-> "Error",
        message |-> IF body.json.detail # << >> THEN body.json.detail
                    ELSE <<FailureMessage(fn)>>]

\* Line 83
ThrownForStatus(fn, response) ==
  [name |-> "Error",
   message |-> <<FailureMessage(fn), ": ", ToString(response.status), " ",
                 response.statusText>>]

\* The function is called: it runs to await fetch(...).  Building the
\* request evaluates JSON.stringify first, and what that throws is caught
\* like anything else.
MLCall(fn, env, arg) ==
  /\ ml.pc = "idle"
  /\ ml' = IF StringifyThrows(fn, arg)
             THEN LET error == [name |-> "TypeError",
                                message |-> <<"Converting circular structure">>]
                  IN  [ml EXCEPT
                         !.pc = "settled", !.fn = fn, !.env = env,
                         !.arg = arg,
                         !.outcome =
                            IF isDevMode(env) THEN InnerCatch(fn, arg, clock)
                            ELSE OuterCatch(fn, env, arg, error, clock)]
             ELSE [ml EXCEPT !.pc = "fetch", !.fn = fn, !.env = env,
                             !.arg = arg, !.fetches = @ + 1]
  /\ UNCHANGED <<junctionsData, simulationResultsData, clock, pc, junctionId,
                 changes, timer, fetched, nowRead, outcome>>
  /\ UNCHANGED uiVars

\* The promise of fetch settles: rejected, or fulfilled with a response
MLFetchSettles(result) ==
  /\ ml.pc = "fetch"
  /\ ml' =
       IF result.state = "rejected"
         THEN [ml EXCEPT
                 !.pc = "settled",
                 !.outcome =
                    IF isDevMode(ml.env)
                      THEN InnerCatch(ml.fn, ml.arg, clock)
                      ELSE OuterCatch(ml.fn, ml.env, ml.arg, result.value[1],
                                      clock)]
       ELSE LET response == result.value[1]
            IN  IF isDevMode(ml.env)
                  THEN IF response.ok
                         THEN [ml EXCEPT !.pc = "json",
                                         !.response = <<response>>]
                         ELSE [ml EXCEPT
                                 !.pc = "settled",
                                 !.response = <<response>>,
                                 !.outcome =
                                    Fulfilled(MockData(ml.fn, ml.arg, clock))]
                ELSE IF response.ok
                          \/ IsJsonContentType(response.contentType)
                  THEN [ml EXCEPT !.pc = "json", !.response = <<response>>]
                ELSE [ml EXCEPT
                        !.pc = "settled",
                        !.response = <<response>>,
                        !.outcome =
                           OuterCatch(ml.fn, ml.env, ml.arg,
                                      ThrownForStatus(ml.fn, response), clock)]
  /\ UNCHANGED <<junctionsData, simulationResultsData, clock, pc, junctionId,
                 changes, timer, fetched, nowRead, outcome>>
  /\ UNCHANGED uiVars

\* The promise of response.json() settles
MLJsonSettles ==
  /\ ml.pc = "json"
  /\ LET response == ml.response[1]
         body == response.body
     IN  ml' =
           [ml EXCEPT
              !.pc = "settled",
              !.outcome =
                 IF isDevMode(ml.env)
                   THEN IF body.parses THEN Fulfilled(body.json)
                        ELSE InnerCatch(ml.fn, ml.arg, clock)
                 ELSE IF response.ok
                   THEN IF body.parses THEN Fulfilled(body.json)
                        ELSE OuterCatch(ml.fn, ml.env, ml.arg, SyntaxError,
                                        clock)
                 ELSE OuterCatch(ml.fn, ml.env, ml.arg,
                                 ThrownForBody(ml.fn, body), clock)]
  /\ UNCHANGED <<junctionsData, simulationResultsData, clock, pc, junctionId,
                 changes, timer, fetched, nowRead, outcome>>
  /\ UNCHANGED uiVars

NextML ==
  \/ \E fn \in MLFunctions, env \in Environments :
       \E arg \in MLArguments(fn) : MLCall(fn, env, arg)
  \/ \E result \in FetchResults : MLFetchSettles(result)
  \/ MLJsonSettles

\* One call of the ML client, in every environment and with every answer
SpecML == Init /\ [][NextML]_vars

\* ------------------------------------------------------------------------
\* getMockPredictions on its own
\* ------------------------------------------------------------------------

\* The most junctions in a list handed to getMockPredictions
MaxJunctions == 2

\* Identifiers for every seed: "j00" to "j99" carry the numbers 0 to 99
NumberedIds == { <<"j", a, b>> : a \in Digits, b \in Digits }

\* and identifiers without a digit, or with digits apart from one another
OtherIds == { <<"a">>, <<"1", "a", "2">>, <<"j", "6">>, <<"j", "4">> }

\* The lists of junctions: one junction of every identifier, and the lists of
\* up to MaxJunctions junctions of the other identifiers, the empty one too
JunctionLists ==
  { <<MLJunction(id)>> : id \in NumberedIds }
    \cup UNION { [1..n -> {MLJunction(id) : id \in OtherIds}] :
                   n \in 0..MaxJunctions }

\* getMockPredictions is about to be called with a list of junctions
InitPredict ==
  /\ junctionsData = SampleJunctions
  /\ simulationResultsData = SampleSimulationResults
  /\ clock = 0
  /\ pc = [i \in Procs |-> "idle"]
  /\ junctionId = [i \in Procs |-> << >>]
  /\ changes = [i \in Procs |-> NoChanges]
  /\ timer = [i \in Procs |-> 0]
  /\ fetched = [i \in Procs |-> Pending]
  /\ nowRead = [i \in Procs |-> << >>]
  /\ outcome = [i \in Procs |-> Pending]
  /\ \E junctions \in JunctionLists :
       ml = [NoMLCall EXCEPT !.fn = "getMockPredictions", !.arg = junctions]
  /\ UiIdle

\* getMockPredictions(junctions) runs, lines 211-255, and returns
MockPredict ==
  /\ ml.pc = "idle"
  /\ ml.fn = "getMockPredictions"
  /\ ml' = [ml EXCEPT !.pc = "settled",
                      !.outcome = Fulfilled(getMockPredictions(ml.arg, clock))]
  /\ UNCHANGED <<junctionsData, simulationResultsData, clock, pc, junctionId,
                 changes, timer, fetched, nowRead, outcome>>
  /\ UNCHANGED uiVars

SpecPredict == InitPredict /\ [][MockPredict]_vars

\* ------------------------------------------------------------------------
\* generateMockJunctions
\* ------------------------------------------------------------------------

\* Math.random() returns r / RandomGrid for an r in 0..(RandomGrid - 1)
RandomGrid == 1000

\* The draws that decide the capacity: the least and the greatest
CapacityDraws == {0, RandomGrid - 1}

\* The draws that decide the traffic count
TrafficDraws == {0, 1, RandomGrid \div 2, RandomGrid - 1}

\* The draws of the other fields
CoarseDraws == {0, RandomGrid - 1}

trafficLevels == <<"low", "medium", "high">>

\* The count parameter: 5 by default and at the call of handleSuccessfulSearch
MockJunctionCount == 5

\* Math.floor(r / RandomGrid * n)
FloorScaled(r, n) == (r * n) \div RandomGrid

\* Mutant: the traffic count is rounded up
currentTrafficCountCeil(trafficLevel, capacity, r) ==
  LET tenths == CASE trafficLevel = "high" -> 8 * RandomGrid + 2 * r
                  [] trafficLevel = "medium" -> 5 * RandomGrid + 3 * r
                  [] OTHER -> RandomGrid + 4 * r
  IN  (capacity * tenths + 10 * RandomGrid - 1) \div (10 * RandomGrid)

\* The switch of lines 22-31: Math.floor(capacity * (0.8 + random * 0.2)) for
\* "high", (0.5 + random * 0.3) for "medium", (0.1 + random * 0.4) otherwise
currentTrafficCount(trafficLevel, capacity, r) ==
  LET tenths == CASE trafficLevel = "high" -> 8 * RandomGrid + 2 * r
                  [] trafficLevel = "medium" -> 5 * RandomGrid + 3 * r
                  [] OTHER -> RandomGrid + 4 * r
  IN  (capacity * tenths) \div (10 * RandomGrid)

\* `j${i + 1}` for i + 1 < 10
MockId(i) == <<"j", CHOOSE c \in Digits : DigitValue(c) = i + 1>>

\* The junction pushed in iteration i, lines 16-46, from the values
\* Math.random() returned; latitude, longitude and name are left out
mockJunction(i, rCapacity, rTraffic, rLanes, rSignal, rSpeed, rWidth, rType) ==
  LET trafficLevel == trafficLevels[(i % Len(trafficLevels)) + 1]
      capacity == 500 + FloorScaled(rCapacity, 500)
  IN  [id |-> MockId(i),
       trafficLevel |-> trafficLevel,
       capacity |-> Num(capacity),
       currentTrafficCount |->
         Num(currentTrafficCount(trafficLevel, capacity, rTraffic)),
       lanes |-> Num(2 + FloorScaled(rLanes, 4)),
       signalTiming |-> Num(30 + FloorScaled(rSignal, 60)),
       speedLimit |-> Num(30 + FloorScaled(rSpeed, 30)),
       laneWidth |-> Num(3 + FloorScaled(rWidth, 2)),
       type |-> IF 2 * rType > RandomGrid THEN "roundabout" ELSE "signalized"]

\* One iteration of the loop of generateMockJunctions: a junction is pushed.
\* What was pushed before is not touched again, so the state keeps the
\* junction pushed last and the number pushed.
PushJunction ==
  /\ generated.pushed < MockJunctionCount
  /\ \E rCapacity \in CapacityDraws, rTraffic \in TrafficDraws,
        rLanes \in CoarseDraws, rSignal \in CoarseDraws, rSpeed \in CoarseDraws,
        rWidth \in CoarseDraws, rType \in CoarseDraws :
       generated' = [pushed |-> generated.pushed + 1,
                     last |-> <<mockJunction(generated.pushed, rCapacity,
                                             rTraffic, rLanes, rSignal, rSpeed,
                                             rWidth, rType)>>]
  /\ UNCHANGED <<junctionsData, simulationResultsData, clock, pc, junctionId,
                 changes, timer, fetched, nowRead, outcome, ml>>
  /\ UNCHANGED <<loading, shownJunctions, searches>>

\* One call of generateMockJunctions(lat, lng, 5)
SpecGenerate == Init /\ [][PushJunction]_vars

\* ------------------------------------------------------------------------
\* handleSearch and handleSuccessfulSearch of the map component
\* ------------------------------------------------------------------------

\* What the search box may hold: nothing, the name of a default location as
\* typed, a name no default location has
Queries == {"", " Paris ", "Atlantis"}

\* searchQuery.toLowerCase().trim() of these
LowerTrimmed(query) ==
  CASE query = " Paris " -> "paris"
    [] query = "Atlantis" -> "atlantis"
    [] OTHER -> ""

\* loc.name.toLowerCase() of the DEFAULT_LOCATIONS
DefaultLocationNames == {"london", "new york", "tokyo", "sydney", "paris"}

\* What the geocoder hands to the callback: "OK" comes with results[0]
GeocoderStatuses == {"OK", "ZERO_RESULTS", "UNKNOWN_ERROR"}

\* The branch of the callback, lines 256-284
CallbackPath(query, status) ==
  IF status = "OK" THEN "geocoded"
  ELSE IF LowerTrimmed(query) \in DefaultLocationNames THEN "fallback"
  ELSE "default"

\* The ids of the junctions generateMockJunctions(lat, lng, 5) returns
MockJunctionIds == [i \in 1..MockJunctionCount |-> MockId(i - 1)]

\* handleSearch is called.  Without a map or a query it returns at once;
\* otherwise it sets loading and hands the callback to the geocoder.
\* Searches are numbered in the order of their calls.
HandleSearch(s, hasMap, query) ==
  /\ searches[s].pc = "idle"
  /\ \A k \in 1..(s - 1) : searches[k].pc # "idle"
  /\ IF ~hasMap \/ query = ""
       THEN /\ searches' = [searches EXCEPT ![s].pc = "returned"]
            /\ UNCHANGED loading
       ELSE /\ searches' = [searches EXCEPT ![s].pc = "geocoding",
                                            ![s].query = query,
                                            ![s].set = TRUE]
            /\ loading' = TRUE
  /\ UNCHANGED <<junctionsData, simulationResultsData, clock, pc, junctionId,
                 changes, timer, fetched, nowRead, outcome, ml>>
  /\ UNCHANGED <<generated, shownJunctions>>

\* handleSearch is called and new Geocoder() or geocode() throws: the catch
\* of line 287 sets loading back in the same run
GeocoderThrows(s, query) ==
  /\ searches[s].pc = "idle"
  /\ \A k \in 1..(s - 1) : searches[k].pc # "idle"
  /\ query # ""
  /\ searches' = [searches EXCEPT ![s].pc = "done", ![s].query = query,
                                  ![s].threw = "geocoder", ![s].set = TRUE,
                                  ![s].cleared = TRUE]
  /\ loading' = FALSE
  /\ UNCHANGED <<junctionsData, simulationResultsData, clock, pc, junctionId,
                 changes, timer, fetched, nowRead, outcome, ml>>
  /\ UNCHANGED <<generated, shownJunctions>>

\* The geocoder calls back.  Every branch calls handleSuccessfulSearch, which
\* runs to the await of line 311, or throws at map.setCenter or map.setZoom
\* and goes through catch and finally.  The map of line 300 is the map
\* handleSearch saw at line 248.
GeocodeCallback(s, status, throws) ==
  /\ searches[s].pc = "geocoding"
  /\ IF throws
       THEN /\ searches' = [searches EXCEPT
                              ![s].pc = "done",
                              ![s].path = CallbackPath(searches[s].query, status),
                              ![s].threw = "map",
                              ![s].cleared = TRUE]
            /\ loading' = FALSE
       ELSE /\ searches' = [searches EXCEPT
                              ![s].pc = "fetching",
                              ![s].path = CallbackPath(searches[s].query, status)]
            /\ UNCHANGED loading
  /\ UNCHANGED <<junctionsData, simulationResultsData, clock, pc, junctionId,
                 changes, timer, fetched, nowRead, outcome, ml>>
  /\ UNCHANGED <<generated, shownJunctions>>

\* Mutant: setLoading(false) ends the try block instead of a finally
JunctionsFetchedNoFinally(s, found, throws) ==
  /\ searches[s].pc = "fetching"
  /\ shownJunctions' = MockJunctionIds
  /\ IF throws
       THEN /\ searches' = [searches EXCEPT ![s].pc = "done",
                                            ![s].simulated = ~found,
                                            ![s].threw = "junctions"]
            /\ UNCHANGED loading
       ELSE /\ searches' = [searches EXCEPT ![s].pc = "done",
                                            ![s].simulated = ~found,
                                            ![s].cleared = TRUE]
            /\ loading' = FALSE
  /\ UNCHANGED <<junctionsData, simulationResultsData, clock, pc, junctionId,
                 changes, timer, fetched, nowRead, outcome, ml>>
  /\ UNCHANGED generated

\* fetchJunctionsNearLocation has resolved, with the junctions of
\* generateMockJunctions or with [] after its catch; with [] the component
\* generates five itself.  setJunctions takes them; addJunctionMarkers or
\* toast may throw after that, to the catch of line 342.  The finally of
\* line 349 runs either way.
JunctionsFetched(s, found, throws) ==
  /\ searches[s].pc = "fetching"
  /\ shownJunctions' = MockJunctionIds
  /\ searches' = [searches EXCEPT
                    ![s].pc = "done",
                    ![s].simulated = ~found,
                    ![s].threw = IF throws THEN "junctions" ELSE @,
                    ![s].cleared = TRUE]
  /\ loading' = FALSE
  /\ UNCHANGED <<junctionsData, simulationResultsData, clock, pc, junctionId,
                 changes, timer, fetched, nowRead, outcome, ml>>
  /\ UNCHANGED generated

NextSearch ==
  \/ \E s \in Searches, hasMap \in BOOLEAN, query \in Queries :
       HandleSearch(s, hasMap, query)
  \/ \E s \in Searches, query \in Queries : GeocoderThrows(s, query)
  \/ \E s \in Searches, status \in GeocoderStatuses, throws \in BOOLEAN :
       GeocodeCallback(s, status, throws)
  \/ \E s \in Searches, found \in BOOLEAN, throws \in BOOLEAN :
       JunctionsFetched(s, found, throws)

\* The searches of one mounted map component
SpecSearch == Init /\ [][NextSearch]_vars

\* The geocoder calls back once for every request, and the event loop runs
\* the continuation of a settled await
SpecSearchLive ==
  /\ SpecSearch
  /\ \A s \in Searches :
       /\ WF_vars(\E status \in GeocoderStatuses, throws \in BOOLEAN :
                    GeocodeCallback(s, status, throws))
       /\ WF_vars(\E found \in BOOLEAN, throws \in BOOLEAN :
                    JunctionsFetched(s, found, throws))

\* ------------------------------------------------------------------------
\* Properties
\* ------------------------------------------------------------------------

\* Invocation i went through lines 62-95 and returned { before, after }
Computed(i) == pc[i] = "settled" /\ nowRead[i] # << >>

\* The junction fetchJunctionById handed to invocation i
junctionOf(i) == fetched[i].value[1]

\* The value the promise of invocation i is fulfilled with
resultOf(i) == outcome[i].value[1]

\* A JunctionState whose six numeric fields are all present and finite
FiniteJunction(junction) ==
  /\ IsFinite(junction.laneWidth)
  /\ IsFinite(junction.speedLimit)
  /\ IsFinite(junction.signalTiming)
  /\ IsFinite(junction.lanes)
  /\ IsFinite(junction.currentTrafficCount)
  /\ IsFinite(junction.capacity)

\* A ChangeRequest whose four fields are finite numbers
FiniteChanges(ch) ==
  /\ IsFinite(ch.laneWidth)
  /\ IsFinite(ch.speedLimit)
  /\ IsFinite(ch.signalTiming)
  /\ IsFinite(ch.additionalLanes)

PositiveCapacity(junction) ==
  IsFinite(junction.capacity) /\ junction.capacity.v > 0

\* C1: for a junction whose numeric fields are all present, with capacity > 0,
\* and a change request of finite numbers, the after snapshot has
\* averageTraffic >= 100, averageDelay >= 5 and throughput >= 200, whatever
\* the size and the sign of totalImpact.
C1_AfterFloors ==
  \A i \in Procs :
    (/\ Computed(i)
     /\ FiniteJunction(junctionOf(i))
     /\ PositiveCapacity(junctionOf(i))
     /\ FiniteChanges(changes[i]))
    => LET after == resultOf(i).after
       IN  /\ Ge(after.averageTraffic, Num(100))
           /\ Ge(after.averageDelay, Num(5))
           /\ Ge(after.throughput, Num(200))

\* A large positive impact takes both the traffic and the delay below their
\* floors, and the floors are what is returned
C1_FloorsBind ==
  \E i \in Procs :
    /\ Computed(i)
    /\ FiniteJunction(junctionOf(i))
    /\ PositiveCapacity(junctionOf(i))
    /\ Ge(totalImpact(junctionOf(i), changes[i]), Num(700))
    /\ resultOf(i).after.averageTraffic = Num(100)
    /\ resultOf(i).after.averageDelay = Num(5)

\* C2: when the capacity of the junction is zero or negative the computation
\* fails with an error: the promise is rejected, no snapshot is returned.
C2_InvalidCapacityRaised ==
  \A i \in Procs :
    (/\ pc[i] = "settled"
     /\ fetched[i].state = "fulfilled"
     /\ ~PositiveCapacity(junctionOf(i)))
    => outcome[i].state = "rejected"

\* A series of 24 points an hour apart, the last one at the instant now
HourlyUpTo(series, now) ==
  /\ DOMAIN series = 1..24
  /\ \A p \in 1..23 :
       ISOToMillis(series[p + 1].time) - ISOToMillis(series[p].time) = 3600000
  /\ ISOToMillis(series[24].time) = now

\* C3: each flow series, before or after, has exactly 24 points, oldest
\* first, each one hour after the previous one, the last at the instant the
\* generation of that series read as now.
C3_FlowSeriesHourly ==
  \A i \in Procs :
    Computed(i)
    => /\ HourlyUpTo(resultOf(i).before.trafficFlowData, nowRead[i][1])
       /\ HourlyUpTo(resultOf(i).after.trafficFlowData, nowRead[i][2])

\* The two series were generated on either side of midnight: the clock moved
\* between them, and the last points carry different calendar days
C3_SeriesAcrossMidnight ==
  \E i \in Procs :
    /\ Computed(i)
    /\ nowRead[i][1] < nowRead[i][2]
    /\ resultOf(i).before.trafficFlowData[24].time.day
         < resultOf(i).after.trafficFlowData[24].time.day
    /\ resultOf(i).after.trafficFlowData[1].time.hour = 1

RunAlone(id, ch, now) ==
  IF id \in DOMAIN SampleSimulationResults
    THEN Fulfilled(SampleSimulationResults[id])
  ELSE LET junction == Find(SampleJunctions, id)
       IN  IF junction = << >>
             THEN Rejected(NotFoundError(id))
             ELSE Fulfilled(SimulationResult(junction[1], ch, now[1], now[2]))

\* C5: under every interleaving of concurrent invocations each one settles
\* with what it would return run alone on its own arguments, and the imported
\* data is never written.
C5_Isolated ==
  /\ junctionsData = SampleJunctions
  /\ simulationResultsData = SampleSimulationResults
  /\ \A i \in Procs :
       pc[i] = "settled"
       => outcome[i] = RunAlone(junctionId[i], changes[i], nowRead[i])

\* One invocation has computed its result while another, called with other
\* changes before the first resumed, is still suspended
C5_Interleaved ==
  \E i, k \in Procs :
    /\ i < k
    /\ Computed(i)
    /\ pc[k] \in {"delay", "fetching", "fetched"}
    /\ changes[k] # changes[i]
    /\ timer[k] <= nowRead[i][1] + 800

\* C6: with capacity > 0 and currentTrafficCount >= 0 the before snapshot's
\* averageDelay is at least 20, and at most 80 when currentTrafficCount is
\* no more than the capacity.
C6_BeforeDelayRange ==
  \A i \in Procs :
    (/\ Computed(i)
     /\ PositiveCapacity(junctionOf(i))
     /\ IsFinite(junctionOf(i).currentTrafficCount)
     /\ junctionOf(i).currentTrafficCount.v >= 0)
    => LET delay == resultOf(i).before.averageDelay
       IN  /\ Ge(delay, Num(20))
           /\ (junctionOf(i).currentTrafficCount.v <= junctionOf(i).capacity.v
                 => Ge(Num(80), delay))

\* A junction at saturation: the delay is exactly 80
C6_Saturated ==
  \E i \in Procs :
    /\ Computed(i)
    /\ PositiveCapacity(junctionOf(i))
    /\ junctionOf(i).currentTrafficCount = junctionOf(i).capacity
    /\ resultOf(i).before.averageDelay = Num(80)

\* C7: the before snapshot copies laneWidth, speedLimit, signalTiming and
\* lanes from the junction, has averageTraffic = currentTrafficCount,
\* averageDelay = 20 + 60 * currentTrafficCount / capacity rounded to one
\* decimal (the number of tenths n with n - 1/2 <= 10 * delay < n + 1/2),
\* throughput = capacity * 0.8 rounded to an integer, and a flow series
\* without impact: nothing in it depends on the change request.
C7_BeforeSnapshot ==
  \A i \in Procs :
    (Computed(i) /\ FiniteJunction(junctionOf(i))
       /\ PositiveCapacity(junctionOf(i)))
    => LET junction == junctionOf(i)
           before == resultOf(i).before
           c == junction.currentTrafficCount.v
           cap == junction.capacity.v
           tenths == (10 * before.averageDelay.v) \div Scale
           whole == before.throughput.v \div Scale
       IN  /\ before.laneWidth = junction.laneWidth
           /\ before.speedLimit = junction.speedLimit
           /\ before.signalTiming = junction.signalTiming
           /\ before.lanes = junction.lanes
           /\ before.averageTraffic = junction.currentTrafficCount
           /\ before.averageDelay = Fix((tenths * Scale) \div 10)
           /\ (2 * tenths - 1) * cap <= 2 * (200 * cap + 600 * c)
           /\ 2 * (200 * cap + 600 * c) < (2 * tenths + 1) * cap
           /\ before.throughput = Num(whole)
           /\ (2 * whole - 1) * 5 * Scale <= 8 * cap
           /\ 8 * cap < (2 * whole + 1) * 5 * Scale
           /\ before.trafficFlowData
                = generateMockTrafficFlowData("before", junction, Num(0),
                                              nowRead[i][1])

\* 150 vehicles on a capacity of 800 under changes with an impact: the delay
\* 31.25 is rounded up to 31.3, the throughput is 640
C7_RoundedDelay ==
  \E i \in Procs :
    /\ Computed(i)
    /\ FiniteJunction(junctionOf(i))
    /\ junctionOf(i).currentTrafficCount = Num(150)
    /\ junctionOf(i).capacity = Num(800)
    /\ totalImpact(junctionOf(i), changes[i]) # Num(0)
    /\ resultOf(i).before.averageDelay = Fix(626)
    /\ resultOf(i).before.throughput = Num(640)

\* The larger of two integers
Max(a, b) == IF a >= b THEN a ELSE b

\* Twice the totalImpact of the claim, in units of 1/Scale, from the fields
TwiceImpact(junction, ch) ==
  40 * (ch.laneWidth.v - junction.laneWidth.v)
    + 4 * (ch.speedLimit.v - junction.speedLimit.v)
    + 3 * (junction.signalTiming.v - ch.signalTiming.v)
    + 200 * ch.additionalLanes.v

\* C8: totalImpact = (changes.laneWidth - laneWidth) * 20
\* + (changes.speedLimit - speedLimit) * 2
\* + (signalTiming - changes.signalTiming) * 1.5 + additionalLanes * 100, and
\* the after snapshot has averageTraffic = max(100, round(0.9 *
\* currentTrafficCount - 0.5 * totalImpact)), averageDelay = max(5, before
\* delay - 0.1 * totalImpact), throughput = max(200, before throughput +
\* totalImpact).
C8_AfterFormulas ==
  \A i \in Procs :
    (Computed(i) /\ FiniteJunction(junctionOf(i))
       /\ PositiveCapacity(junctionOf(i)) /\ FiniteChanges(changes[i]))
    => LET junction == junctionOf(i)
           before == resultOf(i).before
           after == resultOf(i).after
           ti2 == TwiceImpact(junction, changes[i])
           x == 18 * junction.currentTrafficCount.v - 5 * ti2
           r == after.averageTraffic.v \div Scale
       IN  /\ totalImpact(junction, changes[i]).k = "num"
           /\ 2 * totalImpact(junction, changes[i]).v = ti2
           /\ after.averageTraffic = Num(r)
           /\ r >= 100
           /\ x < (2 * r + 1) * 10 * Scale
           /\ (r > 100 => (2 * r - 1) * 10 * Scale <= x)
           /\ after.averageDelay.k = "num"
           /\ 20 * after.averageDelay.v
                = Max(100 * Scale, 20 * before.averageDelay.v - ti2)
           /\ after.throughput.k = "num"
           /\ 2 * after.throughput.v
                = Max(400 * Scale, 2 * before.throughput.v + ti2)

\* Only the signal timing changes, from 60 to 45: the impact is +22.5, which
\* the throughput gains
C8_ShorterSignal ==
  \E i \in Procs :
    /\ Computed(i)
    /\ FiniteJunction(junctionOf(i))
    /\ PositiveCapacity(junctionOf(i))
    /\ junctionOf(i).laneWidth = Num(3)
    /\ junctionOf(i).signalTiming = Num(60)
    /\ changes[i] = ChangeRequest(Num(3), Num(30), Num(45), Num(0))
    /\ resultOf(i).after.throughput
         = Add(resultOf(i).before.throughput, Half(22))

\* C9: for junction j1 {laneWidth 3, speedLimit 30, signalTiming 60, lanes 2,
\* currentTrafficCount 400, capacity 500} and changes {laneWidth 3.5,
\* speedLimit 30, signalTiming 45, additionalLanes 1}: totalImpact = 132.5,
\* after.averageTraffic = 294 and after.averageDelay = 54.75.
C9_ScenarioValues ==
  \A i \in Procs :
    (Computed(i) /\ junctionOf(i) = ScenarioJunction
       /\ changes[i] = ScenarioChanges)
    => /\ totalImpact(junctionOf(i), changes[i]) = Half(132)
       /\ resultOf(i).after.averageTraffic = Num(294)
       /\ resultOf(i).after.averageDelay = Fix(54 * Scale + (3 * Scale) \div 4)

\* The scenario has been computed: three lanes after the change
C9_ScenarioComputed ==
  \E i \in Procs :
    /\ Computed(i)
    /\ junctionOf(i) = ScenarioJunction
    /\ changes[i] = ScenarioChanges
    /\ resultOf(i).before.averageDelay = Num(68)
    /\ resultOf(i).after.lanes = Num(3)

\* C10 as stated: in the scenario the after throughput is the integer 533,
\* and the after throughput is always an integer.
C10_ThroughputInteger ==
  \A i \in Procs :
    (Computed(i) /\ FiniteJunction(junctionOf(i))
       /\ FiniteChanges(changes[i]))
    => /\ resultOf(i).after.throughput.k = "num"
       /\ resultOf(i).after.throughput.v % Scale = 0
       /\ (junctionOf(i) = ScenarioJunction /\ changes[i] = ScenarioChanges
             => resultOf(i).after.throughput = Num(533))

\* C10: in the scenario the after throughput is 532.5, not rounded; the
\* after throughput is an integer exactly when totalImpact is one or the
\* floor of 200 is what is returned.
C10_ThroughputUnrounded ==
  \A i \in Procs :
    (Computed(i) /\ FiniteJunction(junctionOf(i))
       /\ FiniteChanges(changes[i]))
    => LET throughput == resultOf(i).after.throughput
       IN  /\ throughput.k = "num"
           /\ (throughput.v % Scale = 0
                <=> \/ TwiceImpact(junctionOf(i), changes[i]) % (2 * Scale) = 0
                    \/ throughput = Num(200))
           /\ (junctionOf(i) = ScenarioJunction
                  /\ changes[i] = ScenarioChanges
                => throughput = Half(532))

\* The scenario returned a throughput with a fraction of one half
C10_HalfVehicle ==
  \E i \in Procs :
    /\ Computed(i)
    /\ junctionOf(i) = ScenarioJunction
    /\ changes[i] = ScenarioChanges
    /\ resultOf(i).after.throughput.v % Scale = Scale \div 2

\* C11: every point of every flow series has traffic >= 100, in the before
\* series whatever the junction index and in the after series whatever the
\* impact: the floor is applied again after the impact adjustment.
C11_FlowFloor ==
  \A i \in Procs :
    Computed(i)
    => \A p \in 1..24 :
         /\ resultOf(i).before.trafficFlowData[p].traffic >= 100
         /\ resultOf(i).after.trafficFlowData[p].traffic >= 100

\* A large positive impact takes the midday point, well above 100 before,
\* down to the floor
C11_AdjustedToFloor ==
  \E i \in Procs :
    /\ Computed(i)
    /\ Ge(totalImpact(junctionOf(i), changes[i]), Num(700))
    /\ resultOf(i).before.trafficFlowData[13].traffic >= 700
    /\ resultOf(i).after.trafficFlowData[13].traffic = 100

\* C12 as stated: in the before series the hour factor and the traffic are
\* largest at index 18 and smallest at index 6 (points 19 and 7 of the
\* series).
C12_PeakAtEighteen ==
  /\ \A k \in 0..23 : hourFactors[6] <= hourFactors[k]
                       /\ hourFactors[k] <= hourFactors[18]
  /\ \A i \in Procs :
       Computed(i)
       => LET series == resultOf(i).before.trafficFlowData
          IN  \A p \in 1..24 : /\ series[7].traffic <= series[p].traffic
                               /\ series[p].traffic <= series[19].traffic

\* C12: in the before series the hour factor sin((i - 6) pi / 12) is largest,
\* 1, at index 12 and smallest, -1, at index 0, and so is the traffic: the
\* point of index 12 is above every other point, the point of index 0 is
\* below or level with every other; the points of index 6 and 18, where the
\* factor is 0, carry the same traffic, below the peak.
C12_PeakAtTwelve ==
  /\ hourFactors[12] = SinScale
  /\ hourFactors[0] = 0 - SinScale
  /\ \A k \in 0..23 : /\ hourFactors[0] <= hourFactors[k]
                       /\ hourFactors[k] <= hourFactors[12]
                       /\ (k # 12 => hourFactors[k] < hourFactors[12])
                       /\ (k # 0 => hourFactors[0] < hourFactors[k])
  /\ \A i \in Procs :
       Computed(i)
       => LET series == resultOf(i).before.trafficFlowData
          IN  /\ \A p \in 1..24 :
                   /\ series[1].traffic <= series[p].traffic
                   /\ series[p].traffic <= series[13].traffic
                   /\ (p # 13 => series[p].traffic < series[13].traffic)
              /\ series[7].traffic = series[19].traffic
              /\ series[19].traffic < series[13].traffic

\* A before series whose point of index 0 is below that of index 6 and whose
\* point of index 12 is above that of index 18
C12_MiddayPeak ==
  \E i \in Procs :
    /\ Computed(i)
    /\ resultOf(i).before.trafficFlowData[1].traffic
         < resultOf(i).before.trafficFlowData[7].traffic
    /\ resultOf(i).before.trafficFlowData[19].traffic
         < resultOf(i).before.trafficFlowData[13].traffic

\* An identifier that ends in a digit
HasNumericSuffix(s) == s # << >> /\ s[Len(s)] \in Digits

\* The value of the longest run of digits that ends the identifier
NumericSuffix(s) ==
  LET p == CHOOSE q \in 1..(Len(s) + 1) :
             /\ \A r \in q..Len(s) : s[r] \in Digits
             /\ (q = 1 \/ s[q - 1] \notin Digits)
  IN  DigitPrefixValue(SubSeq(s, p, Len(s)), 0)

\* C13: the junction index that seeds the flow series is the numeric suffix
\* of the junction identifier when the identifier ends in digits, and 1 when
\* it does not; the baseline round((index * 100 + 300) * 0.8) = 80 * index
\* + 240 of every point shows it.
C13_IndexIsSuffix ==
  \A i \in Procs :
    Computed(i)
    => LET id == junctionOf(i).id
           index == IF HasNumericSuffix(id) THEN NumericSuffix(id) ELSE 1
       IN  /\ junctionIndex(junctionOf(i)) = index
           /\ \A p \in 1..24 :
                resultOf(i).before.trafficFlowData[p].before = 80 * index + 240

\* C14: every call returns freshly produced values: the results of two calls
\* are never one shared object, and what a caller writes into its result
\* changes neither the imported data nor what another call returns, which
\* stays what the call returns on its own.
C14_FreshResults ==
  /\ \A i, k \in Procs : i # k => ~SameObject(i, k)
  /\ simulationResultsData = SampleSimulationResults
  /\ \A k \in Procs :
       (pc[k] = "settled" /\ outcome[k].state = "fulfilled"
          /\ resultOf(k).after.throughput # Num(0))
       => outcome[k] = RunAlone(junctionId[k], changes[k], nowRead[k])

\* C15: whenever simulateTrafficChanges returns a result, the laneWidth,
\* speedLimit and signalTiming of its after snapshot are those of the changes
\* the invocation was given.
C15_AfterReflectsChanges ==
  \A i \in Procs :
    (pc[i] = "settled" /\ outcome[i].state = "fulfilled")
    => /\ resultOf(i).after.laneWidth = changes[i].laneWidth
       /\ resultOf(i).after.speedLimit = changes[i].speedLimit
       /\ resultOf(i).after.signalTiming = changes[i].signalTiming

\* C16: the lanes of the after snapshot are junction.lanes +
\* changes.additionalLanes exactly, zero and negative sums included: nothing
\* is clamped and the promise is fulfilled, not rejected.
C16_LanesUnclamped ==
  \A i \in Procs :
    (/\ pc[i] = "settled"
     /\ nowRead[i] # << >>
     /\ IsFinite(junctionOf(i).lanes)
     /\ IsFinite(changes[i].additionalLanes))
    => /\ outcome[i].state = "fulfilled"
       /\ resultOf(i).after.lanes
            = Fix(junctionOf(i).lanes.v + changes[i].additionalLanes.v)

\* Two lanes and seven taken away: the after snapshot has a negative number
\* of lanes
C16_NegativeLanes ==
  \E i \in Procs :
    /\ Computed(i)
    /\ junctionOf(i).lanes = Num(2)
    /\ changes[i].additionalLanes.v < 0 - 2 * Scale
    /\ resultOf(i).after.lanes.k = "num"
    /\ resultOf(i).after.lanes.v < 0

\* A junction that leaves out one of the fields the Junction type makes
\* optional
LacksOptionalField(junction) ==
  \/ junction.laneWidth = Undef
  \/ junction.speedLimit = Undef
  \/ junction.signalTiming = Undef
  \/ junction.lanes = Undef

\* C17: for a junction with capacity > 0 that lacks laneWidth, speedLimit,
\* signalTiming or lanes, the invocation either fails with an error or
\* returns an averageTraffic, averageDelay and throughput that are finite
\* and respect the floors 100, 5 and 200; none of them is NaN.
C17_NoNaNMetrics ==
  \A i \in Procs :
    (/\ pc[i] = "settled"
     /\ fetched[i].state = "fulfilled"
     /\ PositiveCapacity(junctionOf(i))
     /\ LacksOptionalField(junctionOf(i)))
    => \/ outcome[i].state = "rejected"
       \/ /\ IsFinite(resultOf(i).before.averageTraffic)
          /\ IsFinite(resultOf(i).before.averageDelay)
          /\ IsFinite(resultOf(i).before.throughput)
          /\ IsFinite(resultOf(i).after.averageTraffic)
          /\ IsFinite(resultOf(i).after.averageDelay)
          /\ IsFinite(resultOf(i).after.throughput)
          /\ Ge(resultOf(i).after.averageTraffic, Num(100))
          /\ Ge(resultOf(i).after.averageDelay, Num(5))
          /\ Ge(resultOf(i).after.throughput, Num(200))

\* The response the settled call received, none when fetch rejected or was
\* never reached
NoResponse == ml.response = << >>

\* C18 as stated: in development or preview mode the three functions never
\* reject; they resolve with the mock data when the fetch throws or the
\* response is not OK, and with the remote body when the response is OK.
C18_DevRemoteWhenOk ==
  (ml.pc = "settled" /\ isDevMode(ml.env))
  => /\ ml.outcome.state = "fulfilled"
     /\ IF NoResponse \/ ~ml.response[1].ok
          THEN ml.outcome.value[1] = MockData(ml.fn, ml.arg, clock)
          ELSE ml.outcome.value[1] = ml.response[1].body.json

\* C18: in development or preview mode the three functions never reject;
\* they resolve with the parsed remote body when the response is OK and its
\* body parses as JSON, and with the mock data in every other case: the
\* request could not be built, the fetch threw, the response is not OK, or
\* the body of an OK response does not parse.
C18_DevNeverRejects ==
  (ml.pc = "settled" /\ isDevMode(ml.env))
  => /\ ml.outcome.state = "fulfilled"
     /\ IF ~NoResponse /\ ml.response[1].ok /\ ml.response[1].body.parses
          THEN ml.outcome.value[1] = ml.response[1].body.json
          ELSE ml.outcome.value[1] = MockData(ml.fn, ml.arg, clock)

\* In preview (a vercel.app host, NODE_ENV production) an OK response whose
\* body does not parse: the call resolved with the mock data
C18_UnparsableOkBody ==
  /\ ml.pc = "settled"
  /\ ml.env.NODE_ENV = "production"
  /\ isDevMode(ml.env)
  /\ ~NoResponse
  /\ ml.response[1].ok
  /\ ~ml.response[1].body.parses
  /\ ml.outcome = Fulfilled(MockData(ml.fn, ml.arg, clock))

\* C19 as stated: in production mode the three functions never return mock
\* data, a failed fetch or a response that is not OK gives a rejected promise
\* carrying the error, and exactly one fetch is issued per call.
C19_ProdOneFetch ==
  (ml.pc = "settled" /\ ~isDevMode(ml.env))
  => /\ ml.fetches = 1
     /\ ml.outcome # Fulfilled(MockData(ml.fn, ml.arg, clock))
     /\ (NoResponse \/ ~ml.response[1].ok => ml.outcome.state = "rejected")

\* C19: in production mode the three functions never return mock data: the
\* promise is fulfilled, with the parsed body, only for an OK response whose
\* body parses, and rejected with the error otherwise (the error of the fetch,
\* of the status, of the detail, or of the parse).  At most one fetch is
\* issued at any time: one per call, none when the request body cannot be
\* serialised.
C19_ProdRejects ==
  /\ ml.fetches <= 1
  /\ (ml.pc = "settled" /\ ~isDevMode(ml.env))
     => /\ ml.fetches = IF StringifyThrows(ml.fn, ml.arg) THEN 0 ELSE 1
        /\ ml.outcome # Fulfilled(MockData(ml.fn, ml.arg, clock))
        /\ IF ~NoResponse /\ ml.response[1].ok /\ ml.response[1].body.parses
             THEN ml.outcome = Fulfilled(ml.response[1].body.json)
             ELSE ml.outcome.state = "rejected"
        /\ (~NoResponse /\ ~ml.response[1].ok
              /\ IsJsonContentType(ml.response[1].contentType)
              /\ ml.response[1].body.parses
              /\ ml.response[1].body.json.detail # << >>
            => ml.outcome.value[1].message = ml.response[1].body.json.detail)
        /\ (~NoResponse /\ ~ml.response[1].ok
              /\ ~IsJsonContentType(ml.response[1].contentType)
            => ml.outcome.value[1].message[1] = FailureMessage(ml.fn))
        /\ (NoResponse /\ ml.fetches = 1
            => ml.outcome.value[1].message = <<"Failed to fetch">>)

\* In production a response that is not OK carries a JSON detail: the call
\* was rejected with that detail, after its one fetch
C19_RejectedWithDetail ==
  /\ ml.pc = "settled"
  /\ ~isDevMode(ml.env)
  /\ ml.fetches = 1
  /\ ~NoResponse
  /\ ~ml.response[1].ok
  /\ ml.outcome.state = "rejected"
  /\ ml.outcome.value[1].message = <<"Model not loaded">>

\* C20: an after series generated with impact 0 carries at every index the
\* traffic and the baseline of the before series of the same junction; and
\* the baseline is one value, round(baseFactor * 0.8) = 80 * junctionIndex +
\* 240, at all 24 indices of both series, whatever the impact.
C20_ZeroImpactSameSeries ==
  \A i \in Procs :
    Computed(i)
    => LET seriesBefore == resultOf(i).before.trafficFlowData
           seriesAfter == resultOf(i).after.trafficFlowData
           baseline == 80 * junctionIndex(junctionOf(i)) + 240
       IN  /\ \A p \in 1..24 : /\ seriesBefore[p].before = baseline
                               /\ seriesAfter[p].before = baseline
           /\ (totalImpact(junctionOf(i), changes[i]) = Num(0)
                => \A p \in 1..24 :
                     seriesAfter[p].traffic = seriesBefore[p].traffic)

\* Changes that restate the junction's own values: the impact is 0 and the
\* after series, generated a moment later, has the traffic of the before one
C20_NoOpChanges ==
  \E i \in Procs :
    /\ Computed(i)
    /\ totalImpact(junctionOf(i), changes[i]) = Num(0)
    /\ nowRead[i][1] < nowRead[i][2]
    /\ resultOf(i).after.trafficFlowData[13].traffic
         = resultOf(i).before.trafficFlowData[13].traffic
    /\ resultOf(i).after.trafficFlowData[13].traffic
         > resultOf(i).after.trafficFlowData[13].before

\* The three after metrics a change request yields for a junction
afterMetrics(junction, ch) ==
  LET impact == totalImpact(junction, ch)
  IN  [averageTraffic |-> afterAverageTraffic(junction, impact),
       averageDelay |-> afterAverageDelay(junction, impact),
       throughput |-> afterThroughput(junction, impact)]

\* The three metrics of after snapshot a are at least as good as those of
\* after snapshot b: no more traffic, no more delay, no less throughput
NoWorse(a, b) ==
  /\ Ge(b.averageTraffic, a.averageTraffic)
  /\ Ge(b.averageDelay, a.averageDelay)
  /\ Ge(a.throughput, b.throughput)

\* C21: for a junction with capacity > 0, the after metrics are monotone in
\* totalImpact: whenever the change request of the invocation yields a
\* totalImpact >= that of another change request for the same junction, its
\* after.averageTraffic and after.averageDelay are <= and its
\* after.throughput is >= those the other request yields.
C21_MonotoneInImpact ==
  \A i \in Procs :
    (Computed(i) /\ PositiveCapacity(junctionOf(i)))
    => \A other \in Changes :
         Ge(totalImpact(junctionOf(i), changes[i]),
            totalImpact(junctionOf(i), other))
         => NoWorse(resultOf(i).after, afterMetrics(junctionOf(i), other))

\* A request with a strictly larger impact than another, none of the floors
\* binding: less traffic, less delay and more throughput, all three strictly
C21_StrictlyBetter ==
  \E i \in Procs :
    /\ Computed(i)
    /\ PositiveCapacity(junctionOf(i))
    /\ \E other \in Changes :
         LET a == resultOf(i).after
             b == afterMetrics(junctionOf(i), other)
         IN  /\ Ge(totalImpact(junctionOf(i), changes[i]),
                   totalImpact(junctionOf(i), other))
             /\ NoWorse(a, b)
             /\ a.averageTraffic # b.averageTraffic
             /\ a.averageDelay # b.averageDelay
             /\ a.throughput # b.throughput
             /\ a.averageTraffic # Num(100)
             /\ a.averageDelay # Num(5)
             /\ b.throughput # Num(200)

\* A change request that restates the junction's own values and adds no lane
NoOp(junction, ch) ==
  /\ ch.laneWidth = junction.laneWidth
  /\ ch.speedLimit = junction.speedLimit
  /\ ch.signalTiming = junction.signalTiming
  /\ ch.additionalLanes = Num(0)

\* C22 as stated: for a no-op change request on a junction with capacity > 0,
\* the averageTraffic, averageDelay and throughput of the after snapshot equal
\* those of the before snapshot.
C22_NoOpKeepsMetrics ==
  \A i \in Procs :
    (Computed(i) /\ PositiveCapacity(junctionOf(i))
       /\ NoOp(junctionOf(i), changes[i]))
    => /\ resultOf(i).after.averageTraffic = resultOf(i).before.averageTraffic
       /\ resultOf(i).after.averageDelay = resultOf(i).before.averageDelay
       /\ resultOf(i).after.throughput = resultOf(i).before.throughput

\* C22: for a no-op change request on a junction with capacity > 0 and a
\* traffic count >= 0, the after snapshot has the averageDelay of the before
\* snapshot, the throughput max(200, before.throughput), and the averageTraffic
\* max(100, round(currentTrafficCount * 0.9)), not the count itself.
C22_NoOpMetrics ==
  \A i \in Procs :
    (Computed(i) /\ PositiveCapacity(junctionOf(i))
       /\ NoOp(junctionOf(i), changes[i])
       /\ Ge(junctionOf(i).currentTrafficCount, Num(0)))
    => LET before == resultOf(i).before
           after == resultOf(i).after
       IN  /\ totalImpact(junctionOf(i), changes[i]) = Num(0)
           /\ after.averageDelay = before.averageDelay
           /\ after.throughput.k = "num"
           /\ after.throughput.v = Max(200 * Scale, before.throughput.v)
           /\ after.averageTraffic
                = Num(Max(100, RoundRatio(9 * junctionOf(i).currentTrafficCount.v,
                                          10 * Scale)))

\* A no-op request on a junction that carries 400 vehicles: the after
\* snapshot reports 360
C22_NoOpLessTraffic ==
  \E i \in Procs :
    /\ Computed(i)
    /\ PositiveCapacity(junctionOf(i))
    /\ NoOp(junctionOf(i), changes[i])
    /\ resultOf(i).before.averageTraffic = Num(400)
    /\ resultOf(i).after.averageTraffic = Num(360)
    /\ resultOf(i).after.throughput = resultOf(i).before.throughput

\* C23: within one result, the point of index p of before.trafficFlowData and
\* the point of index p of after.trafficFlowData carry the same timestamp, for
\* every p in 0..23, although each series reads the clock on its own.
C23_SameTimestamps ==
  \A i \in Procs :
    Computed(i)
    => \A p \in 1..24 :
         resultOf(i).before.trafficFlowData[p].time
           = resultOf(i).after.trafficFlowData[p].time

\* C24: simulateTrafficChanges for a junctionId that has neither a
\* pre-computed result nor an entry in the junction data rejects with the
\* error "Junction with ID ... not found" and returns no snapshot; for an id
\* with a pre-computed result it returns that result without looking the
\* junction up.
C24_NotFoundOrPrecomputed ==
  \A i \in Procs :
    pc[i] = "settled"
    => /\ (/\ junctionId[i] \notin DOMAIN simulationResultsData
           /\ Find(junctionsData, junctionId[i]) = << >>)
          => /\ outcome[i].state = "rejected"
             /\ outcome[i].value[1] = NotFoundError(junctionId[i])
       /\ junctionId[i] \in DOMAIN simulationResultsData
          => /\ outcome[i] = Fulfilled(simulationResultsData[junctionId[i]])
             /\ fetched[i] = Pending

\* Ratio a is greater than ratio b
Greater(a, b) == a.n * b.d > b.n * a.d

\* C25: getMockPredictions returns one prediction for each junction it is
\* given, in the order given and with the junction's id; the risk_level of
\* each is 0, 1 or 2 by the seed (number * 13) mod 100 of the junction number
\* (> 70: 2, > 40: 1), the three entries of risk_probability are positive and
\* the entry at index risk_level is strictly the largest.
C25_RiskIsLargest ==
  (ml.fn = "getMockPredictions" /\ ml.pc = "settled")
  => LET predictions == ml.outcome.value[1].predictions
     IN  /\ ml.outcome.state = "fulfilled"
         /\ Len(predictions) = Len(ml.arg)
         /\ \A p \in 1..Len(ml.arg) :
              LET seed == (junctionNumber(ml.arg[p]) * 13) % 100
                  level == predictions[p].risk_level
                  prob == predictions[p].risk_probability
              IN  /\ predictions[p].junction_id = ml.arg[p].id
                  /\ level = (IF seed > 70 THEN 2 ELSE IF seed > 40 THEN 1 ELSE 0)
                  /\ \A k \in 1..3 : prob[k].n > 0 /\ prob[k].d > 0
                  /\ \A k \in 1..3 :
                       k # level + 1 => Greater(prob[level + 1], prob[k])

\* Two junctions, "j6" (seed 78) and "j4" (seed 52): a high risk, then a
\* medium one, each the likeliest of its three
C25_HighThenMedium ==
  /\ ml.fn = "getMockPredictions"
  /\ ml.pc = "settled"
  /\ Len(ml.arg) = 2
  /\ LET predictions == ml.outcome.value[1].predictions
     IN  /\ predictions[1].junction_id = <<"j", "6">>
         /\ predictions[1].risk_level = 2
         /\ Greater(predictions[1].risk_probability[3],
                    predictions[1].risk_probability[1])
         /\ predictions[2].junction_id = <<"j", "4">>
         /\ predictions[2].risk_level = 1
         /\ Greater(predictions[2].risk_probability[2],
                    predictions[2].risk_probability[3])

\* The bounds of the band of a traffic level, in tenths of the capacity
BandLow(trafficLevel) ==
  CASE trafficLevel = "high" -> 8 [] trafficLevel = "medium" -> 5 [] OTHER -> 1

BandHigh(trafficLevel) ==
  CASE trafficLevel = "high" -> 10 [] trafficLevel = "medium" -> 8 [] OTHER -> 5

\* C26 as stated: every generated junction has 500 <= capacity <= 999 and
\* 0 < currentTrafficCount <= capacity, and currentTrafficCount / capacity
\* lies in the band of its label: [0.1, 0.5) for low, [0.5, 0.8) for medium,
\* [0.8, 1] for high.
C26_WithinBands ==
  generated.pushed > 0
  => LET junction == generated.last[1]
         capacity == junction.capacity.v \div Scale
         count == junction.currentTrafficCount.v \div Scale
     IN  /\ 500 <= capacity /\ capacity <= 999
         /\ 0 < count /\ count <= capacity
         /\ 10 * count >= BandLow(junction.trafficLevel) * capacity
         /\ IF junction.trafficLevel = "high"
              THEN count <= capacity
              ELSE 10 * count < BandHigh(junction.trafficLevel) * capacity

\* C26: every generated junction has 500 <= capacity <= 999 and
\* 0 < currentTrafficCount <= capacity, both whole numbers, and
\* currentTrafficCount is under the upper end of the band of its label times
\* the capacity (at most the capacity for high) and less than one vehicle
\* under the lower end times the capacity: the count is rounded down.
C26_WithinFlooredBands ==
  generated.pushed > 0
  => LET junction == generated.last[1]
         capacity == junction.capacity.v \div Scale
         count == junction.currentTrafficCount.v \div Scale
     IN  /\ junction.capacity = Num(capacity)
         /\ junction.currentTrafficCount = Num(count)
         /\ PositiveCapacity(junction)
         /\ 500 <= capacity /\ capacity <= 999
         /\ 0 < count /\ count <= capacity
         /\ 10 * count > BandLow(junction.trafficLevel) * capacity - 10
         /\ IF junction.trafficLevel = "high"
              THEN count <= capacity
              ELSE 10 * count < BandHigh(junction.trafficLevel) * capacity

\* The fifth junction, labelled medium, with capacity 999 and the least
\* factor 0.5: 499 vehicles, under half the capacity
C26_MediumUnderHalf ==
  /\ generated.pushed = 5
  /\ generated.last[1].id = <<"j", "5">>
  /\ generated.last[1].trafficLevel = "medium"
  /\ generated.last[1].capacity = Num(999)
  /\ generated.last[1].currentTrafficCount = Num(499)

\* C27: every search that sets loading to true sets it back to false in the
\* end, whether geocoding succeeded, failed with a known fallback city,
\* failed with no fallback, the loading of the junctions threw, or the call
\* of the geocoder itself threw.
C27_LoadingCleared ==
  \A s \in Searches : searches[s].set ~> searches[s].cleared

\* Two searches that set loading and both set it back: the first after the
\* geocoder threw, the second by the finally of handleSuccessfulSearch, on
\* the London default, after the loading of the junctions threw
C27_ClearedAfterThrows ==
  /\ searches[1].set /\ searches[1].cleared
  /\ searches[1].threw = "geocoder"
  /\ searches[2].set /\ searches[2].cleared
  /\ searches[2].path = "default"
  /\ searches[2].threw = "junctions"
  /\ loading = FALSE

====
